---------------------------- MODULE Spec2Model ----------------------------
(***************************************************************************)
(* Vendor inventory reconciliation (routes/products.js, generic and        *)
(* Wholecell versions).  Strings that take part in a name match or in a    *)
(* map key are sequences of one-character strings, so that trimming,       *)
(* case folding, substring search and key concatenation are computed.      *)
(* The alphabet of the modelled feeds and catalog holds no regular         *)
(* expression metacharacter and no "_".                                    *)
(***************************************************************************)
EXTENDS Integers, Sequences, FiniteSets, TLC

VARIABLES
    products,        \* collection tep_admin_products, in insertion order
    vendorProducts,  \* collection tep_vendor_products
    vendorApis,      \* collection tep_admin_wholesale_apis, in insertion order
    trig,            \* the trigger being served: route, vendor list, phase, and
                     \* (history) the vendor products when it started
    pipe,            \* one pipeline per vendor of the trigger (Promise.allSettled)
    response,        \* the response sent for the trigger
    runs,            \* number of vendor pipelines started so far
    prev,            \* per vendorId: the last settled pass (history)
    resolver,        \* per pipeline: where its findOrCreateProduct calls stand,
                     \* when the calls are followed await by await
    client,          \* `let client` of the routes module
    calls,           \* the calls of getClient, pending or returned
    productsCollection,  \* collection products (per-SKU sync), in insertion order
    legacy           \* the per-SKU route's handler: its position and its locals

syncVars == <<products, vendorProducts, vendorApis, trig, pipe, response, runs, prev>>

sideVars == <<resolver, client, calls, productsCollection, legacy>>

vars == <<syncVars, sideVars>>

(***************************************************************************)
(* Bounds                                                                  *)
(***************************************************************************)
MaxRuns == 2

(***************************************************************************)
(* Text                                                                    *)
(***************************************************************************)
sEmpty == <<>>
sUnknown == <<"U","n","k","n","o","w","n">>
sStandard == <<"S","t","a","n","d","a","r","d">>
sGB == <<"G","B">>
sGB4GBRAM == <<"G","B"," ","4","G","B"," ","R","A","M">>
sSep == <<",", " ">>

LowerChar(c) ==
    CASE c = "A" -> "a" [] c = "B" -> "b" [] c = "C" -> "c" [] c = "G" -> "g"
      [] c = "K" -> "k" [] c = "M" -> "m" [] c = "Q" -> "q" [] c = "R" -> "r"
      [] c = "S" -> "s" [] c = "U" -> "u" [] c = "X" -> "x" [] c = "Z" -> "z"
      [] c = "W" -> "w"
      [] OTHER -> c

ToLower(s) == [i \in 1..Len(s) |-> LowerChar(s[i])]

RECURSIVE TrimLeft(_)
TrimLeft(s) == IF s # <<>> /\ Head(s) = " " THEN TrimLeft(Tail(s)) ELSE s

RECURSIVE TrimRight(_)
TrimRight(s) ==
    IF s # <<>> /\ s[Len(s)] = " " THEN TrimRight(SubSeq(s, 1, Len(s) - 1)) ELSE s

Trim(s) == TrimRight(TrimLeft(s))

\* String.prototype.includes
Includes(s, sub) ==
    \E i \in 1..(Len(s) + 1) :
        /\ i + Len(sub) - 1 <= Len(s)
        /\ SubSeq(s, i, i + Len(sub) - 1) = sub

\* storageSpec.split(", ")
RECURSIVE SplitFrom(_, _, _)
SplitFrom(s, i, cur) ==
    IF i > Len(s) THEN <<cur>>
    ELSE IF i + 1 <= Len(s) /\ SubSeq(s, i, i + 1) = sSep
         THEN <<cur>> \o SplitFrom(s, i + 2, <<>>)
         ELSE SplitFrom(s, i + 1, Append(cur, s[i]))

Split(s) == SplitFrom(s, 1, <<>>)

\* `${manufacturer || ""} ${model || ""}`.trim()
ProductName(p) == Trim(p.manufacturer \o <<" ">> \o p.model)

\* a conversion that truncates instead of rounding
PriceInDollarsTruncated(cents) == cents \div 100

\* Math.round((Number(x) || 0) / 100) on a non-negative integer amount
PriceInDollars(cents) == (cents + 50) \div 100

\* the higher of the two prices
MaxOf(a, b) == IF a <= b THEN b ELSE a

Min(a, b) == IF a <= b THEN a ELSE b


(***************************************************************************)
(* Identifiers.  An ObjectId is modelled by where it was generated: the    *)
(* collection, the pipeline run, the pipeline's slot in the trigger and    *)
(* two counters.  Run 0 holds the documents present at start.              *)
(***************************************************************************)
Oid(tag, run, slot, a, b) == <<tag, run, slot, a, b>>

OidLess(x, y) ==
    \/ x[2] < y[2]
    \/ x[2] = y[2] /\ x[3] < y[3]
    \/ x[2] = y[2] /\ x[3] = y[3] /\ x[4] < y[4]
    \/ x[2] = y[2] /\ x[3] = y[3] /\ x[4] = y[4] /\ x[5] < y[5]

\* new ObjectId("682f3e63402c8b0c279cba1e")
fixedConditionId == Oid("cond", 0, 0, 1, 0)

NoDoc == [found |-> FALSE]
Doc(d) == [found |-> TRUE, doc |-> d]

(***************************************************************************)
(* Catalog (tep_admin_products) at start                                   *)
(***************************************************************************)
sAc == <<"A","c">>
sX1 == <<"X","1">>
sAcX1 == <<"A","c"," ","X","1">>
sBo == <<"B","o">>
sM2 == <<"M","2">>
sBoM2 == <<"B","o"," ","M","2">>
sZe == <<"Z","e">>
sQ9 == <<"Q","9">>
s64 == <<"6","4">>
sStorageAcX1 ==
    <<"6","4","G","B"," ","4","G","B"," ","R","A","M",","," ",
      "1","2","8","G","B"," ","8","G","B"," ","R","A","M">>

ProdAcX1 ==
    [_id |-> Oid("prod", 0, 0, 1, 0), name |-> sAcX1, manufacturer |-> sAc,
     model |-> sX1, category |-> sAc, storage |-> sStorageAcX1]

ProdBoM2 ==
    [_id |-> Oid("prod", 0, 0, 2, 0), name |-> sBoM2, manufacturer |-> sBo,
     model |-> sM2, category |-> sBo, storage |-> sEmpty]

InitialCatalog == <<ProdAcX1, ProdBoM2>>

(***************************************************************************)
(* Vendor items (RawVendorItem) and the feeds the vendor API may return    *)
(***************************************************************************)
MkItem(id, man, mod, cap, grade, status, cents, esn) ==
    [id |-> id, manufacturer |-> man, model |-> mod, color |-> <<"K">>,
     capacity |-> cap, variant |-> sEmpty, grade |-> grade, status |-> status,
     total_price_paid |-> cents, esn |-> esn, hex_id |-> "", sku |-> ""]

ItemA1 == MkItem(1, sAc, sX1, s64, <<"A">>, "Available", 10000, "e1")
ItemA2 == MkItem(2, sAc, sX1, s64, <<"A">>, "Available", 9000, "e2")
ItemB1 == MkItem(3, sAc, sX1, s64, <<"B">>, "Available", 10000, "e3")
ItemSold == MkItem(4, sAc, sX1, s64, <<"A">>, "Sold", 10000, "e4")
ItemZe == MkItem(5, sZe, sQ9, s64, <<"A">>, "Available", 10000, "e5")
ItemBo == MkItem(6, sBo, sM2, sEmpty, <<"A">>, "Available", 20000, "")

\* same product and grade as ItemA1: another color and capacity, identified by
\* hex_id (ItemW) or by sku (ItemS)
s128 == <<"1","2","8">>
ItemW ==
    [MkItem(7, sAc, sX1, s128, <<"A">>, "Available", 5050, "")
        EXCEPT !.color = <<"W">>, !.hex_id = "h7"]
ItemS ==
    [MkItem(8, sAc, sX1, s128, <<"A">>, "Available", 7000, "")
        EXCEPT !.color = <<"W">>, !.sku = "s8"]
\* the catalog name in another case; a name of two characters
ItemLc == MkItem(9, <<"a","c">>, sX1, s128, <<"A">>, "Available", 10000, "e9")
ItemX == MkItem(10, sEmpty, sX1, s64, <<"A">>, "Available", 10000, "e10")

Feeds ==
    { <<>>, <<ItemA1, ItemA2>>, <<ItemA1, ItemB1>>, <<ItemSold>>,
      <<ItemZe, ItemA1>>, <<ItemBo, ItemA1>>,
      <<ItemA2, ItemSold, ItemW, ItemS, ItemA1>>, <<ItemLc, ItemX>> }

\* `item_${item.id}`
SyntheticItemId(id) ==
    CASE id = 1 -> "item_1" [] id = 2 -> "item_2" [] id = 3 -> "item_3"
      [] id = 4 -> "item_4" [] id = 5 -> "item_5" [] id = 6 -> "item_6"
      [] id = 7 -> "item_7" [] id = 8 -> "item_8" [] id = 9 -> "item_9"
      [] OTHER -> "item_10"

\* item.esn || item.hex_id || variation.sku || `item_${item.id}`
UnitIdentifier(item) ==
    IF item.esn # "" THEN item.esn
    ELSE IF item.hex_id # "" THEN item.hex_id
    ELSE IF item.sku # "" THEN item.sku
    ELSE SyntheticItemId(item.id)

(***************************************************************************)
(* Grouper                                                                 *)
(***************************************************************************)
\* groupKey = `${`${manufacturer}_${model}`.trim()}_${grade || "Unknown"}`
ConditionKey(item) == IF item.grade = sEmpty THEN sUnknown ELSE item.grade

GroupKey(item) ==
    Trim(item.manufacturer \o <<"_">> \o item.model) \o <<"_">> \o ConditionKey(item)

IndexOfKey(groups, key) ==
    IF \E i \in 1..Len(groups) : groups[i].key = key
    THEN CHOOSE i \in 1..Len(groups) : groups[i].key = key
    ELSE 0

\* grouped.get(groupKey).items.push(item), after the entry is made when missing
AddToGroup(grouped, item, at) ==
    IF at = 0
    THEN Append(grouped,
             [key |-> GroupKey(item),
              product |-> [manufacturer |-> item.manufacturer, model |-> item.model],
              condition |-> ConditionKey(item),
              items |-> <<item>>])
    ELSE [grouped EXCEPT ![at].items = Append(@, item)]

RECURSIVE GroupFrom(_, _)
GroupFrom(items, grouped) ==
    IF items = <<>> THEN grouped
    ELSE GroupFrom(Tail(items),
             AddToGroup(grouped, Head(items), IndexOfKey(grouped, GroupKey(Head(items)))))

\* a Map in insertion order, as a sequence of its entries
groupItemsByProductAndCondition(items) == GroupFrom(items, <<>>)

(***************************************************************************)
(* Product Resolver                                                        *)
(***************************************************************************)
\* { name: { $regex: `^${escapeRegex(name)}$`, $options: "i" } }
ExactNameMatch(p, name) == ToLower(p.name) = ToLower(name)

\* { name: { $regex: name, $options: "i" } }
PartialNameMatch(p, name) == Includes(ToLower(p.name), ToLower(name))

\* collection.findOne: the first document, in insertion order, that matches
FirstOf(catalog, hits) ==
    IF hits = {} THEN NoDoc
    ELSE Doc(catalog[CHOOSE i \in hits : \A j \in hits : i <= j])

FindOneExact(catalog, name) ==
    FirstOf(catalog, {i \in 1..Len(catalog) : ExactNameMatch(catalog[i], name)})

FindOnePartial(catalog, name) ==
    FirstOf(catalog, {i \in 1..Len(catalog) : PartialNameMatch(catalog[i], name)})

\* the exact match when there is one; else, for a name longer than 3
\* characters, the partial match
ExactOrPartial(product, catalog, name) ==
    IF product.found THEN product
    ELSE IF Len(name) > 3 THEN FindOnePartial(catalog, name)
    ELSE NoDoc

FindByName(catalog, name) == ExactOrPartial(FindOneExact(catalog, name), catalog, name)

findExistingProduct(productData, catalog) == FindByName(catalog, ProductName(productData))

\* the document findOrCreateProduct inserts when nothing matches
NewProduct(productData, id) ==
    [_id |-> id,
     name |-> ProductName(productData),
     manufacturer |-> IF productData.manufacturer = sEmpty THEN sUnknown
                      ELSE productData.manufacturer,
     model |-> productData.model,
     category |-> IF productData.manufacturer = sEmpty THEN sUnknown
                  ELSE productData.manufacturer,
     storage |-> sEmpty]

FoundOrCreated(product, newProduct, catalog) ==
    IF product.found
    THEN [product |-> product.doc, catalog |-> catalog]
    ELSE [product |-> newProduct, catalog |-> Append(catalog, newProduct)]

\* returns the product and the catalog after the call
findOrCreateProduct(productData, catalog, id) ==
    FoundOrCreated(FindOnePartial(catalog, ProductName(productData)),
                   NewProduct(productData, id), catalog)

(***************************************************************************)
(* Option Aggregator                                                       *)
(***************************************************************************)
\* a Map in insertion order: set() on a present key keeps its position
MapIndex(m, key) ==
    IF \E i \in 1..Len(m) : m[i].key = key
    THEN CHOOSE i \in 1..Len(m) : m[i].key = key
    ELSE 0

MapSet(m, key, val) ==
    IF MapIndex(m, key) = 0 THEN Append(m, [key |-> key, val |-> val])
    ELSE [m EXCEPT ![MapIndex(m, key)].val = val]

\* if (!optionsMap.has(optionKey)) optionsMap.set(optionKey, option)
MapEnsure(m, key, val) == IF MapIndex(m, key) # 0 THEN m ELSE MapSet(m, key, val)

MapValues(m) == [i \in 1..Len(m) |-> m[i].val]

\* `${color}_${variant}`
OptionKey(color, variant) == color \o <<"_">> \o variant

ColorOf(item) == IF item.color = sEmpty THEN sUnknown ELSE item.color

\* a count that raises the stock and forgets the unit's identifier
CountUnitStockOnly(m, at, item) ==
    [m EXCEPT ![at].val.stock = @ + 1]

\* option.stock += 1; option.uniqueNumbers.push(...)
CountUnit(m, at, item) ==
    [m EXCEPT ![at].val.stock = @ + 1,
              ![at].val.uniqueNumbers = Append(@, UnitIdentifier(item))]

CountUnitAt(m, key, item) == CountUnit(m, MapIndex(m, key), item)

\* generic adapter: product.variant || (capacity ? `${capacity}GB` : "") || "Standard"
GenericVariant(item) ==
    IF item.variant # sEmpty THEN item.variant
    ELSE IF item.capacity # sEmpty THEN item.capacity \o sGB
    ELSE sStandard

NewGenericOption(item, id) ==
    [color |-> ColorOf(item), variant |-> GenericVariant(item), stock |-> 0,
     price |-> item.total_price_paid, discount |-> 0, uniqueNumbers |-> <<>>,
     _id |-> id]

\* an item that is not Sold is counted under its option
GenericCount(withKey, key, item) ==
    IF item.status # "Sold" THEN CountUnitAt(withKey, key, item) ELSE withKey

GenericItem(optionsMap, item, key, id) ==
    GenericCount(MapEnsure(optionsMap, key, NewGenericOption(item, id)), key, item)

RECURSIVE CreateOptionsFrom(_, _, _, _, _)
CreateOptionsFrom(items, optionsMap, run, slot, g) ==
    IF items = <<>> THEN optionsMap
    ELSE CreateOptionsFrom(Tail(items),
             GenericItem(optionsMap, Head(items),
                 OptionKey(ColorOf(Head(items)), GenericVariant(Head(items))),
                 Oid("opt", run, slot, g, Len(optionsMap) + 1)),
             run, slot, g)

createSelectedOptions(items, run, slot, g) ==
    MapValues(CreateOptionsFrom(items, <<>>, run, slot, g))

RECURSIVE FirstToken(_, _)
FirstToken(tokens, sub) ==
    IF tokens = <<>> THEN NoDoc
    ELSE IF Includes(Head(tokens), sub) THEN Doc(Head(tokens))
    ELSE FirstToken(Tail(tokens), sub)

\* the token holding `${capacity}GB`, else the token holding capacity
PickToken(withUnit, bare) ==
    IF withUnit.found THEN withUnit.doc
    ELSE IF bare.found THEN bare.doc
    ELSE sUnknown

MatchIn(storageOptions, capacity) ==
    PickToken(FirstToken(storageOptions, capacity \o sGB),
              FirstToken(storageOptions, capacity))

findMatchingStorageSpec(storageSpec, capacity) ==
    IF storageSpec = sEmpty \/ capacity = sEmpty THEN sUnknown
    ELSE MatchIn(Split(storageSpec), capacity)

\* names of the Available items, empty names dropped
AvailableProductNames(items) ==
    {ProductName(items[i]) : i \in {j \in 1..Len(items) : items[j].status = "Available"}}
        \ {sEmpty}

\* adminProductMap.get(productName.toLowerCase()): of the catalog products whose
\* name is in productNames, the last one set under that lower-cased name
LastOf(catalog, hits) ==
    IF hits = {} THEN NoDoc
    ELSE Doc(catalog[CHOOSE i \in hits : \A j \in hits : j <= i])

AdminProductIn(names, name, catalog) ==
    LastOf(catalog, {i \in 1..Len(catalog) :
                        /\ catalog[i].name \in names
                        /\ ToLower(catalog[i].name) = ToLower(name)})

AdminProductFor(item, items, catalog) ==
    AdminProductIn(AvailableProductNames(items), ProductName(item), catalog)

VariantWith(capacity, adminProduct) ==
    IF capacity # sEmpty /\ adminProduct.found /\ adminProduct.doc.storage # sEmpty
    THEN findMatchingStorageSpec(adminProduct.doc.storage, capacity)
    ELSE IF capacity # sEmpty THEN capacity \o sGB4GBRAM
    ELSE sUnknown

WholecellVariant(item, items, catalog) ==
    VariantWith(item.capacity, AdminProductFor(item, items, catalog))

NewWholecellOption(item, color, variant, id) ==
    [color |-> color, variant |-> variant, stock |-> 0,
     price |-> PriceInDollars(item.total_price_paid),
     discount |-> PriceInDollars(item.total_price_paid),
     uniqueNumbers |-> <<>>, _id |-> id]

WholecellCount(optionsMap, item, key, option) ==
    CountUnitAt(MapEnsure(optionsMap, key, option), key, item)

WholecellItem(optionsMap, item, color, variant, id) ==
    WholecellCount(optionsMap, item, OptionKey(color, variant),
                   NewWholecellOption(item, color, variant, id))

RECURSIVE WholecellOptionsFrom(_, _, _, _, _, _, _)
WholecellOptionsFrom(rest, items, catalog, optionsMap, run, slot, g) ==
    IF rest = <<>> THEN optionsMap
    ELSE IF Head(rest).status # "Available"
    THEN WholecellOptionsFrom(Tail(rest), items, catalog, optionsMap, run, slot, g)
    ELSE WholecellOptionsFrom(Tail(rest), items, catalog,
             WholecellItem(optionsMap, Head(rest), ColorOf(Head(rest)),
                 WholecellVariant(Head(rest), items, catalog),
                 Oid("opt", run, slot, g, Len(optionsMap) + 1)),
             run, slot, g)

createSelectedOptionsForWholecell(items, catalog, run, slot, g) ==
    MapValues(WholecellOptionsFrom(items, items, catalog, <<>>, run, slot, g))

(***************************************************************************)
(* Merge on update (Wholecell)                                             *)
(***************************************************************************)
RECURSIVE MergeExisting(_, _)
MergeExisting(existingOptions, merged) ==
    IF existingOptions = <<>> THEN merged
    ELSE MergeExisting(Tail(existingOptions),
             MapSet(merged,
                    OptionKey(Head(existingOptions).color, Head(existingOptions).variant),
                    Head(existingOptions)))

\* a merge that replaces the stock instead of adding to it
MergeStockReplace(existingStock, newStock) == newStock

MergeStock(existingStock, newStock) == existingStock + newStock

\* a merge that spreads the new option over the existing one, id included
MergedOptionRenewed(existing, opt) ==
    [opt EXCEPT
        !.stock = MergeStock(existing.stock, opt.stock),
        !.uniqueNumbers = existing.uniqueNumbers \o opt.uniqueNumbers,
        !.price = Min(existing.price, opt.price),
        !.discount = Min(existing.price, opt.price)]

\* existing.stock += opt.stock, the lists concatenated, the lower price kept
\* and the discount set to it
MergedOption(existing, opt) ==
    [existing EXCEPT
        !.stock = MergeStock(existing.stock, opt.stock),
        !.uniqueNumbers = existing.uniqueNumbers \o opt.uniqueNumbers,
        !.price = Min(existing.price, opt.price),
        !.discount = Min(existing.price, opt.price)]

MergeOne(merged, opt, at) ==
    IF at # 0 THEN [merged EXCEPT ![at].val = MergedOption(merged[at].val, opt)]
    ELSE Append(merged, [key |-> OptionKey(opt.color, opt.variant), val |-> opt])

RECURSIVE MergeNew(_, _)
MergeNew(newOptions, merged) ==
    IF newOptions = <<>> THEN merged
    ELSE MergeNew(Tail(newOptions),
             MergeOne(merged, Head(newOptions),
                 MapIndex(merged, OptionKey(Head(newOptions).color,
                                            Head(newOptions).variant))))

mergeSelectedOptions(existingOptions, newOptions) ==
    MapValues(MergeNew(newOptions, MergeExisting(existingOptions, <<>>)))

(***************************************************************************)
(* Store boundary (tep_vendor_products)                                    *)
(***************************************************************************)
\* natural order of the collection: ObjectIds grow with time
LeastById(recs) == CHOOSE r \in recs : \A q \in recs : q = r \/ OidLess(r._id, q._id)

\* a filter on (product, condition) that forgets the vendor
MatchesFilterAnyVendor(r, filter) ==
    IF filter.by = "_id" THEN r._id = filter._id
    ELSE /\ r.product = filter.product
         /\ r.condition = filter.condition

MatchesFilter(r, filter) ==
    IF filter.by = "_id" THEN r._id = filter._id
    ELSE /\ r.vendorId = filter.vendorId
         /\ r.product = filter.product
         /\ r.condition = filter.condition

LeastOrNone(hits) == IF hits = {} THEN NoDoc ELSE Doc(LeastById(hits))

\* findOne({ vendorId, product, condition })
FindOneVendorProduct(store, vendorId, product, condition) ==
    LeastOrNone({r \in store : r.vendorId = vendorId /\ r.product = product
                                  /\ r.condition = condition})

\* find({ vendorId }).toArray(), in natural order
RECURSIVE SortById(_)
SortById(recs) ==
    IF recs = {} THEN <<>>
    ELSE <<LeastById(recs)>> \o SortById(recs \ {LeastById(recs)})

\* a find that forgets the vendorId filter
FindVendorProductsAll(store, vendorId) == SortById(store)

FindVendorProducts(store, vendorId) == SortById({r \in store : r.vendorId = vendorId})

SetFields(r, set) == [f \in DOMAIN r |-> IF f \in DOMAIN set THEN set[f] ELSE r[f]]

\* updateOne without upsert: the first matching document, if any, is changed
UpdateFirst(store, hit, set) ==
    IF ~hit.found THEN store
    ELSE (store \ {hit.doc}) \cup {SetFields(hit.doc, set)}

\* a zero-out that deletes the record instead of keeping it as a tombstone
ApplyOpDeleting(store, op) ==
    IF op.op = "insertOne" THEN store \cup {op.document}
    ELSE IF op.filter.by = "_id"
         THEN {r \in store : ~MatchesFilter(r, op.filter)}
         ELSE UpdateFirst(store,
                  LeastOrNone({r \in store : MatchesFilter(r, op.filter)}), op.set)

\* one operation of a bulkWrite
ApplyOp(store, op) ==
    IF op.op = "insertOne" THEN store \cup {op.document}
    ELSE UpdateFirst(store, LeastOrNone({r \in store : MatchesFilter(r, op.filter)}),
                     op.set)

\* the operations the server applied, in the order it applied them
RECURSIVE ApplyOps(_, _, _)
ApplyOps(store, bulkOps, order) ==
    IF order = <<>> THEN store
    ELSE ApplyOps(ApplyOp(store, bulkOps[Head(order)]), bulkOps, Tail(order))

\* The fields g (the group the operation comes from), aggregated (the
\* group's freshly aggregated options) and read (the document findOne
\* returned) record where an operation comes from; the store ignores them.
InsertOp(vendorProductData, id, g) ==
    [op |-> "insertOne",
     document |-> [_id |-> id,
                   vendorId |-> vendorProductData.vendorId,
                   product |-> vendorProductData.product,
                   condition |-> vendorProductData.condition,
                   selectedOptions |-> vendorProductData.selectedOptions,
                   database |-> vendorProductData.database],
     g |-> g,
     aggregated |-> vendorProductData.selectedOptions]

UpdateOp(vendorProductData, existing, mergedOptions, g) ==
    [op |-> "updateOne",
     filter |-> [by |-> "triple",
                 vendorId |-> vendorProductData.vendorId,
                 product |-> vendorProductData.product,
                 condition |-> vendorProductData.condition],
     set |-> [vendorProductData EXCEPT !.selectedOptions = mergedOptions],
     g |-> g,
     aggregated |-> vendorProductData.selectedOptions,
     read |-> existing]

ZeroedOptions(selectedOptions) ==
    [i \in 1..Len(selectedOptions) |->
        [selectedOptions[i] EXCEPT !.stock = 0, !.uniqueNumbers = <<>>]]

ZeroOutOp(existing) ==
    [op |-> "updateOne",
     filter |-> [by |-> "_id", _id |-> existing._id],
     set |-> [selectedOptions |-> ZeroedOptions(existing.selectedOptions)],
     g |-> 0,
     read |-> existing]

AllStockZero(selectedOptions) ==
    \A i \in 1..Len(selectedOptions) : selectedOptions[i].stock = 0

RECURSIVE SumStock(_)
SumStock(selectedOptions) ==
    IF selectedOptions = <<>> THEN 0
    ELSE Head(selectedOptions).stock + SumStock(Tail(selectedOptions))

(***************************************************************************)
(* Faults: the store call of a pass that rejects, if any                   *)
(***************************************************************************)
NoFault == [g |-> 0, site |-> "none"]

Fails(fault, g, site) == fault.g = g /\ fault.site = site

(***************************************************************************)
(* syncWholecellVendor, from the grouped items to the batch                *)
(***************************************************************************)
\* a filter that drops an unmatched group without counting it
FilteredUncounted(groupData, g, existingProduct, acc) ==
    IF existingProduct.found
    THEN [acc EXCEPT !.validGroups =
             Append(@, [g |-> g, items |-> groupData.items, key |-> groupData.key,
                        existingProduct |-> existingProduct.doc])]
    ELSE acc

\* validGroups.set(groupKey, ...) or skippedProducts++
Filtered(groupData, g, existingProduct, acc) ==
    IF existingProduct.found
    THEN [acc EXCEPT !.validGroups =
             Append(@, [g |-> g, items |-> groupData.items, key |-> groupData.key,
                        existingProduct |-> existingProduct.doc])]
    ELSE [acc EXCEPT !.skippedProducts = @ + 1]

\* STEP 1: keep the groups whose product is in the catalog.  The lookup is
\* outside any try block, so a rejected lookup rejects the pass.
RECURSIVE WholecellStep1(_, _, _, _, _)
WholecellStep1(groupedItems, g, catalog, fault, acc) ==
    IF g > Len(groupedItems) THEN acc
    ELSE IF Fails(fault, g, "findExistingProduct") THEN [acc EXCEPT !.threw = TRUE]
    ELSE WholecellStep1(groupedItems, g + 1, catalog, fault,
             Filtered(groupedItems[g], g,
                      findExistingProduct(groupedItems[g].product, catalog), acc))

\* a diff whose insert is pushed without being counted
WholecellDiffInsertUncounted(vendorProductData, existing, g, id, acc) ==
    IF existing.found
    THEN [acc EXCEPT
             !.updatedVendorProducts = @ + 1,
             !.totalStockProcessed = @ + SumStock(vendorProductData.selectedOptions),
             !.bulkOps = Append(@,
                 UpdateOp(vendorProductData, existing.doc,
                     mergeSelectedOptions(existing.doc.selectedOptions,
                                          vendorProductData.selectedOptions),
                     g))]
    ELSE [acc EXCEPT
             !.totalStockProcessed = @ + SumStock(vendorProductData.selectedOptions),
             !.bulkOps = Append(@, InsertOp(vendorProductData, id, g))]

\* STEP 3: an update that merges into the persisted record, else an insert
WholecellDiff(vendorProductData, existing, g, id, acc) ==
    IF existing.found
    THEN [acc EXCEPT
             !.updatedVendorProducts = @ + 1,
             !.totalStockProcessed = @ + SumStock(vendorProductData.selectedOptions),
             !.bulkOps = Append(@,
                 UpdateOp(vendorProductData, existing.doc,
                     mergeSelectedOptions(existing.doc.selectedOptions,
                                          vendorProductData.selectedOptions),
                     g))]
    ELSE [acc EXCEPT
             !.newVendorProducts = @ + 1,
             !.totalStockProcessed = @ + SumStock(vendorProductData.selectedOptions),
             !.bulkOps = Append(@, InsertOp(vendorProductData, id, g))]

WholecellAggregated(vendorId, groupData, store, selectedOptions, id, acc) ==
    IF selectedOptions = <<>> \/ AllStockZero(selectedOptions) THEN acc
    ELSE WholecellDiff([vendorId |-> vendorId,
                        product |-> groupData.existingProduct._id,
                        condition |-> fixedConditionId,
                        selectedOptions |-> selectedOptions,
                        database |-> "wholecell"],
                       FindOneVendorProduct(store, vendorId,
                           groupData.existingProduct._id, fixedConditionId),
                       groupData.g, id, acc)

\* The body of the try block of STEP 2 for one valid group.  The block awaits
\* two store calls (the find of createSelectedOptionsForWholecell and the
\* findOne of the persisted record); either rejection reaches the same catch
\* before any counter or operation changes, so one fault site stands for both.
WholecellGroup(vendorId, groupData, catalog, store, fault, run, slot, acc) ==
    IF Fails(fault, groupData.g, "createSelectedOptions") THEN acc
    ELSE WholecellAggregated(vendorId, groupData, store,
             createSelectedOptionsForWholecell(groupData.items, catalog, run, slot,
                                               groupData.g),
             Oid("vp", run, slot, Len(acc.bulkOps) + 1, 0), acc)

RECURSIVE WholecellStep2(_, _, _, _, _, _, _, _)
WholecellStep2(vendorId, validGroups, i, catalog, store, fault, runslot, acc) ==
    IF i > Len(validGroups) THEN acc
    ELSE WholecellStep2(vendorId, validGroups, i + 1, catalog, store, fault, runslot,
             WholecellGroup(vendorId, validGroups[i], catalog, store, fault,
                            runslot[1], runslot[2], acc))

WholecellSummary(vendorId, vendorItems, step1, step2) ==
    [vendorId |-> vendorId,
     database |-> "wholecell",
     totalFetched |-> Len(vendorItems),
     validProducts |-> Len(step1.validGroups),
     skippedProducts |-> step1.skippedProducts,
     newVendorProducts |-> step2.newVendorProducts,
     updatedVendorProducts |-> step2.updatedVendorProducts,
     totalStockProcessed |-> step2.totalStockProcessed,
     totalOperations |-> Len(step2.bulkOps)]

WholecellPlanned(vendorId, vendorItems, catalog, step1, step2) ==
    [threw |-> FALSE, catalog |-> catalog, bulkOps |-> step2.bulkOps,
     summary |-> WholecellSummary(vendorId, vendorItems, step1, step2)]

WholecellFiltered(vendorId, vendorItems, catalog, store, fault, runslot, step1) ==
    IF step1.threw
    THEN [threw |-> TRUE, catalog |-> catalog, bulkOps |-> <<>>]
    ELSE WholecellPlanned(vendorId, vendorItems, catalog, step1,
             WholecellStep2(vendorId, step1.validGroups, 1, catalog, store, fault,
                 runslot,
                 [bulkOps |-> <<>>, newVendorProducts |-> 0,
                  updatedVendorProducts |-> 0, totalStockProcessed |-> 0]))

PlanWholecell(vendorId, vendorItems, catalog, store, fault, run, slot) ==
    WholecellFiltered(vendorId, vendorItems, catalog, store, fault, <<run, slot>>,
        WholecellStep1(groupItemsByProductAndCondition(vendorItems), 1, catalog, fault,
            [threw |-> FALSE, validGroups |-> <<>>, skippedProducts |-> 0]))

(***************************************************************************)
(* syncVendor (generic adapter), from the grouped items to the batch       *)
(***************************************************************************)
\* syncVendor reads `condition._id`, but no binding named `condition` exists
\* in the function or in the module (findOrCreateCondition is never called):
\* evaluating the identifier throws a ReferenceError.
\*
\* The body of the try block of the first loop for group g.  The group's
\* product is resolved (and created when missing); a group with stock then
\* reaches `condition._id` in the findOne filter and the ReferenceError is
\* caught by the group's catch, so the statements that build the update or
\* the insert are never reached.
GenericResolved(catalog, selectedOptions) ==
    IF selectedOptions = <<>> \/ AllStockZero(selectedOptions)
    THEN [catalog |-> catalog, reached |-> "continue"]
    ELSE [catalog |-> catalog, reached |-> "caught"]

GenericGroup(groupData, g, catalog, fault, run, slot) ==
    IF Fails(fault, g, "findOrCreateProduct")
    THEN [catalog |-> catalog, reached |-> "caught"]
    ELSE GenericResolved(
             findOrCreateProduct(groupData.product, catalog,
                                 Oid("prod", run, slot, g, 1)).catalog,
             createSelectedOptions(groupData.items, run, slot, g))

RECURSIVE GenericLoop1(_, _, _, _, _, _)
GenericLoop1(groupedItems, g, catalog, fault, run, slot) ==
    IF g > Len(groupedItems) THEN catalog
    ELSE GenericLoop1(groupedItems, g + 1,
             GenericGroup(groupedItems[g], g, catalog, fault, run, slot).catalog,
             fault, run, slot)

\* The loop that builds currentCombinations, outside any try block: its
\* first iteration resolves the product and then throws the ReferenceError
\* on `condition._id`, which rejects the pass.
GenericLoop2(groupedItems, catalog, fault, run, slot) ==
    IF groupedItems = <<>> THEN [threw |-> FALSE, catalog |-> catalog]
    ELSE [threw |-> TRUE,
          catalog |-> findOrCreateProduct(groupedItems[1].product, catalog,
                          Oid("prod", run, slot, 1, 2)).catalog]

\* mark out-of-stock: with no current combination, every persisted record
RECURSIVE ZeroOutOps(_)
ZeroOutOps(existingVendorProducts) ==
    IF existingVendorProducts = <<>> THEN <<>>
    ELSE <<ZeroOutOp(Head(existingVendorProducts))>>
             \o ZeroOutOps(Tail(existingVendorProducts))

GenericSummary(vendorId, vendorItems, groupedItems, bulkOps) ==
    [vendorId |-> vendorId,
     totalFetched |-> Len(vendorItems),
     groupsProcessed |-> Len(groupedItems),
     newVendorProducts |-> 0,
     updatedVendorProducts |-> 0,
     markedAsOutOfStock |-> Len(bulkOps),
     totalOperations |-> Len(bulkOps)]

GenericPlanned(vendorId, vendorItems, groupedItems, catalog, bulkOps) ==
    [threw |-> FALSE, catalog |-> catalog, bulkOps |-> bulkOps,
     summary |-> GenericSummary(vendorId, vendorItems, groupedItems, bulkOps)]

GenericMarked(vendorId, vendorItems, groupedItems, store, loop2) ==
    IF loop2.threw
    THEN [threw |-> TRUE, catalog |-> loop2.catalog, bulkOps |-> <<>>]
    ELSE GenericPlanned(vendorId, vendorItems, groupedItems, loop2.catalog,
             ZeroOutOps(FindVendorProducts(store, vendorId)))

GenericLooped(vendorId, vendorItems, groupedItems, store, fault, runslot, catalog1) ==
    IF Fails(fault, 0, "find")
    THEN [threw |-> TRUE, catalog |-> catalog1, bulkOps |-> <<>>]
    ELSE GenericMarked(vendorId, vendorItems, groupedItems, store,
             GenericLoop2(groupedItems, catalog1, fault, runslot[1], runslot[2]))

GenericGrouped(vendorId, vendorItems, groupedItems, catalog, store, fault, run, slot) ==
    GenericLooped(vendorId, vendorItems, groupedItems, store, fault, <<run, slot>>,
        GenericLoop1(groupedItems, 1, catalog, fault, run, slot))

PlanGeneric(vendorId, vendorItems, catalog, store, fault, run, slot) ==
    GenericGrouped(vendorId, vendorItems, groupItemsByProductAndCondition(vendorItems),
                   catalog, store, fault, run, slot)

(***************************************************************************)
(* State at start                                                          *)
(***************************************************************************)
VendorIds == {"vA", "vB"}

ApiA == [vendorId |-> "vA", database |-> "wholecell"]
ApiB == [vendorId |-> "vB", database |-> "wholecell"]
ApiBNoDatabase == [vendorId |-> "vB", database |-> ""]
ApiAOther == [vendorId |-> "vA", database |-> "other"]

s64GB4GBRAM == <<"6","4","G","B"," ","4","G","B"," ","R","A","M">>

StoredOption(n, stock, uniqueNumbers) ==
    [color |-> <<"K">>, variant |-> s64GB4GBRAM, stock |-> stock, price |-> 100,
     discount |-> 100, uniqueNumbers |-> uniqueNumbers, _id |-> Oid("opt", 0, 0, n, 1)]

StoredRecord(n, vendorId, product, selectedOptions) ==
    [_id |-> Oid("vp", 0, 0, n, 0), vendorId |-> vendorId, product |-> product,
     condition |-> fixedConditionId, selectedOptions |-> selectedOptions,
     database |-> "wholecell"]

RecA1 == StoredRecord(1, "vA", ProdAcX1._id, <<StoredOption(1, 1, <<"e0">>)>>)
RecA2 == StoredRecord(2, "vA", ProdBoM2._id, <<StoredOption(2, 2, <<"e7", "e8">>)>>)
RecB1 == StoredRecord(3, "vB", ProdAcX1._id, <<StoredOption(3, 1, <<"e9">>)>>)

\* the configured vendors and the persisted vendor products at start
InitialStates ==
    { [apis |-> <<ApiA>>, store |-> {}],
      [apis |-> <<ApiA>>, store |-> {RecA1, RecA2, RecB1}],
      [apis |-> <<ApiA, ApiB>>, store |-> {RecA1, RecB1}],
      [apis |-> <<ApiA, ApiBNoDatabase>>, store |-> {}],
      [apis |-> <<ApiAOther>>, store |-> {RecA1}] }

Idle == [phase |-> "idle", route |-> "none", n |-> 0, apis |-> <<>>, store |-> {}]
NoResponse == [status |-> 0]
NoPass == [kind |-> "none"]

NoClient == [state |-> "none"]
\* the per-SKU route before its first request
LegacyIdle ==
    [pc |-> "idle", n |-> 0, items |-> <<>>, pre |-> <<>>, bulkOps |-> <<>>,
     status |-> 0, summary |-> [totalOperations |-> 0]]

\* no getClient call made, no per-SKU sync run, resolver calls not followed
SidesAtRest ==
    /\ resolver = <<>>
    /\ client = NoClient
    /\ calls = <<>>
    /\ productsCollection = <<>>
    /\ legacy = LegacyIdle

Init ==
    /\ products = InitialCatalog
    /\ \E start \in InitialStates :
           /\ vendorProducts = start.store
           /\ vendorApis = start.apis
    /\ trig = Idle
    /\ pipe = <<>>
    /\ response = NoResponse
    /\ runs = 0
    /\ prev = [v \in VendorIds |-> NoPass]
    /\ SidesAtRest

(***************************************************************************)
(* Orchestrator: the three sync routes                                     *)
(***************************************************************************)
Routes == {"generic", "restricted", "wholecell"}

\* restricted "/": vendors without a database field get "wholecell", persisted
WithDatabase(apis) ==
    [i \in 1..Len(apis) |->
        IF apis[i].database = "" THEN [apis[i] EXCEPT !.database = "wholecell"]
        ELSE apis[i]]

RECURSIVE OnlyWholecell(_)
OnlyWholecell(apis) ==
    IF apis = <<>> THEN <<>>
    ELSE IF Head(apis).database = "wholecell"
         THEN <<Head(apis)>> \o OnlyWholecell(Tail(apis))
         ELSE OnlyWholecell(Tail(apis))

\* the vendor list the route maps over
RouteApis(route, apis) ==
    CASE route = "generic" -> apis
      [] route = "restricted" -> WithDatabase(apis)
      [] OTHER -> OnlyWholecell(apis)

AdapterOf(route, api) ==
    IF route = "generic" THEN "generic"
    ELSE IF api.database = "wholecell" THEN "wholecell"
    ELSE "nosync"

\* the promise the route creates for one vendor
NewPipeline(route, api) ==
    [vendorId |-> api.vendorId,
     adapter |-> AdapterOf(route, api),
     pc |-> IF AdapterOf(route, api) = "nosync" THEN "done" ELSE "fetch",
     body |-> "none",
     items |-> <<>>,
     fault |-> NoFault,
     pre |-> {},
     catalog |-> <<>>,
     bulkOps |-> <<>>,
     applied |-> <<>>,
     error |-> "",
     summary |-> IF AdapterOf(route, api) = "nosync"
                 THEN [vendorId |-> api.vendorId, database |-> api.database,
                       error |-> "No sync function available for this database type"]
                 ELSE [vendorId |-> api.vendorId]]

\* a route that waits for every pass to succeed
SettledOnSuccess(p) == p.pc = "done"

Settled(p) == p.pc \in {"done", "failed"}

\* history: the vendor's pass in the trigger that just ended, kept when it
\* was a fulfilled Wholecell pass none of whose store calls rejected
Fulfilled(p) == p.adapter = "wholecell" /\ p.pc = "done" /\ p.fault = NoFault

Remember(old, pipes) ==
    [v \in VendorIds |->
        IF \E i \in 1..Len(pipes) : pipes[i].vendorId = v /\ pipes[i].adapter # "nosync"
        THEN LET i == CHOOSE j \in 1..Len(pipes) :
                          pipes[j].vendorId = v /\ pipes[j].adapter # "nosync"
             IN  IF Fulfilled(pipes[i])
                 THEN [kind |-> "fulfilled", items |-> pipes[i].items,
                       catalog |-> pipes[i].catalog]
                 ELSE [kind |-> "other"]
        ELSE old[v]]

StartTrigger(route) ==
    /\ trig.phase \in {"idle", "responded"}
    /\ runs + Len(vendorApis) <= MaxRuns
    /\ LET apis == RouteApis(route, vendorApis)
       IN  /\ vendorApis' = IF route = "restricted" THEN apis ELSE vendorApis
           /\ runs' = runs + Len(vendorApis)
           /\ prev' = Remember(prev, pipe)
           /\ pipe' = [i \in 1..Len(apis) |-> NewPipeline(route, apis[i])]
           /\ IF route = "wholecell" /\ apis = <<>>
              THEN /\ trig' = [phase |-> "responded", route |-> route,
                               n |-> trig.n + 1, apis |-> apis,
                               store |-> vendorProducts]
                   /\ response' = [status |-> 200,
                                   message |-> "No Wholecell vendors found",
                                   summary |-> <<>>]
              ELSE /\ trig' = [phase |-> "running", route |-> route,
                               n |-> trig.n + 1, apis |-> apis,
                               store |-> vendorProducts]
                   /\ response' = NoResponse
    /\ UNCHANGED <<products, vendorProducts>>
    /\ UNCHANGED sideVars

\* getClient() or the load of the vendor list rejects: the route's catch
OrchestratorFails(route) ==
    /\ trig.phase \in {"idle", "responded"}
    /\ runs + Len(vendorApis) <= MaxRuns
    /\ trig' = [phase |-> "responded", route |-> route, n |-> trig.n, apis |-> <<>>,
                 store |-> vendorProducts]
    /\ response' = [status |-> 500]
    /\ prev' = Remember(prev, pipe)
    /\ pipe' = <<>>
    /\ UNCHANGED <<products, vendorProducts, vendorApis, runs>>
    /\ UNCHANGED sideVars

(***************************************************************************)
(* One vendor's pipeline                                                   *)
(***************************************************************************)
\* axios.get resolves with a body whose data array is `feed`
Fetch(i, feed) ==
    /\ trig.phase = "running"
    /\ pipe[i].pc = "fetch"
    /\ pipe' = [pipe EXCEPT ![i].pc = "plan", ![i].body = "data", ![i].items = feed]
    /\ UNCHANGED <<products, vendorProducts, vendorApis, trig, response, runs, prev>>
    /\ UNCHANGED sideVars

\* axios.get rejects (network, auth, timeout)
FetchFails(i) ==
    /\ trig.phase = "running"
    /\ pipe[i].pc = "fetch"
    /\ pipe' = [pipe EXCEPT ![i].pc = "failed", ![i].error = "fetch"]
    /\ UNCHANGED <<products, vendorProducts, vendorApis, trig, response, runs, prev>>
    /\ UNCHANGED sideVars

\* bodies that are not an object with a `data` array: an object without data,
\* an object whose data is not an array, a string or number, and null
Bodies == {"nodata", "notarray", "scalar", "null"}

\* Array.isArray(resp.data.data) ? resp.data.data : [] on such a body: reading
\* `.data` of null throws a TypeError, which rejects the pass; on any other
\* body the read gives a value that is not an array
FetchMalformed(i, body) ==
    /\ trig.phase = "running"
    /\ pipe[i].pc = "fetch"
    /\ pipe' = [pipe EXCEPT
           ![i].body = body,
           ![i].pc = IF body = "null" THEN "failed" ELSE "plan",
           ![i].error = IF body = "null" THEN "body" ELSE ""]
    /\ UNCHANGED <<products, vendorProducts, vendorApis, trig, response, runs, prev>>
    /\ UNCHANGED sideVars

FaultSites(adapter) ==
    IF adapter = "generic" THEN {"findOrCreateProduct"}
    ELSE {"findExistingProduct", "createSelectedOptions"}

Faults(adapter, items) ==
    {NoFault}
      \cup {[g |-> g, site |-> site] :
               g \in 1..Len(groupItemsByProductAndCondition(items)),
               site \in FaultSites(adapter)}
      \cup (IF adapter = "generic"
            THEN {[g |-> 0, site |-> "find"]}
            ELSE {})

PlanOf(p, catalog, store, fault, n, i) ==
    IF p.adapter = "generic"
    THEN PlanGeneric(p.vendorId, p.items, catalog, store, fault, n, i)
    ELSE PlanWholecell(p.vendorId, p.items, catalog, store, fault, n, i)

\* group, resolve, aggregate and diff: everything between the fetch and the
\* bulkWrite.  A pass with an empty batch returns its summary at once.
Planned(i, fault, plan) ==
    /\ products' = plan.catalog
    /\ pipe' = [pipe EXCEPT
           ![i].fault = fault,
           ![i].pre = {r \in vendorProducts : r.vendorId = pipe[i].vendorId},
           ![i].catalog = products,
           ![i].bulkOps = plan.bulkOps,
           ![i].pc = IF plan.threw THEN "failed"
                     ELSE IF plan.bulkOps = <<>> THEN "done" ELSE "commit",
           ![i].error = IF plan.threw THEN "plan" ELSE "",
           ![i].summary = IF plan.threw THEN @ ELSE plan.summary]

Plan(i, fault) ==
    /\ trig.phase = "running"
    /\ pipe[i].pc = "plan"
    /\ fault \in Faults(pipe[i].adapter, pipe[i].items)
    /\ Planned(i, fault, PlanOf(pipe[i], products, vendorProducts, fault, trig.n, i))
    /\ UNCHANGED <<vendorProducts, vendorApis, trig, response, runs, prev>>
    /\ UNCHANGED sideVars

\* sequences of distinct indices of 1..n: which operations of an unordered
\* bulkWrite the server applied, in the order it applied them
RECURSIVE Orders(_)
Orders(S) ==
    {<<>>} \cup UNION {{<<x>> \o o : o \in Orders(S \ {x})} : x \in S}

\* bulkWrite(bulkOps, { ordered: false }): it resolves when every operation
\* applied and rejects otherwise, the other operations staying applied
Commit(i, order) ==
    /\ trig.phase = "running"
    /\ pipe[i].pc = "commit"
    /\ order \in Orders(1..Len(pipe[i].bulkOps))
    /\ vendorProducts' = ApplyOps(vendorProducts, pipe[i].bulkOps, order)
    /\ pipe' = [pipe EXCEPT
           ![i].applied = order,
           ![i].pc = IF Len(order) = Len(pipe[i].bulkOps) THEN "done" ELSE "failed",
           ![i].error = IF Len(order) = Len(pipe[i].bulkOps) THEN "" ELSE "bulkWrite"]
    /\ UNCHANGED <<products, vendorApis, trig, response, runs, prev>>
    /\ UNCHANGED sideVars

\* results.map: the value of a fulfilled pass, an error entry for a rejected one
SummaryEntry(route, api, p) ==
    IF p.pc = "done" THEN p.summary
    ELSE IF route = "generic" THEN [vendorId |-> api.vendorId, error |-> p.error]
    ELSE IF route = "restricted"
         THEN [vendorId |-> api.vendorId,
               database |-> IF api.database = "" THEN "default" ELSE api.database,
               error |-> p.error]
    ELSE [vendorId |-> api.vendorId, database |-> "wholecell", error |-> p.error]

\* a route that answers with a failure when a vendor's pass was rejected
RespondRethrowing ==
    /\ trig.phase = "running"
    /\ \A i \in 1..Len(pipe) : Settled(pipe[i])
    /\ response' = IF \E i \in 1..Len(pipe) : pipe[i].pc = "failed"
                   THEN [status |-> 500]
                   ELSE [status |-> 200,
                         message |-> "sync complete",
                         summary |-> [i \in 1..Len(pipe) |->
                                         SummaryEntry(trig.route, trig.apis[i], pipe[i])]]
    /\ trig' = [trig EXCEPT !.phase = "responded"]
    /\ UNCHANGED <<products, vendorProducts, vendorApis, pipe, runs, prev>>
    /\ UNCHANGED sideVars

Respond ==
    /\ trig.phase = "running"
    /\ \A i \in 1..Len(pipe) : Settled(pipe[i])
    /\ response' = [status |-> 200,
                    message |-> "sync complete",
                    summary |-> [i \in 1..Len(pipe) |->
                                    SummaryEntry(trig.route, trig.apis[i], pipe[i])]]
    /\ trig' = [trig EXCEPT !.phase = "responded"]
    /\ UNCHANGED <<products, vendorProducts, vendorApis, pipe, runs, prev>>
    /\ UNCHANGED sideVars

Next ==
    \/ \E route \in Routes : StartTrigger(route)
    \/ \E route \in Routes : OrchestratorFails(route)
    \/ \E i \in 1..Len(pipe), feed \in Feeds : Fetch(i, feed)
    \/ \E i \in 1..Len(pipe) : FetchFails(i)
    \/ \E i \in 1..Len(pipe), body \in Bodies : FetchMalformed(i, body)
    \/ \E i \in 1..Len(pipe) : \E fault \in Faults(pipe[i].adapter, pipe[i].items) : Plan(i, fault)
    \/ \E i \in 1..Len(pipe) : \E order \in Orders(1..Len(pipe[i].bulkOps)) : Commit(i, order)
    \/ Respond

Spec == Init /\ [][Next]_vars

\* the continuations of the vendors' passes: the one after axios.get, the one
\* that groups, resolves, aggregates and diffs, and the one after bulkWrite
FetchStep ==
    \/ \E i \in 1..Len(pipe), feed \in Feeds : Fetch(i, feed)
    \/ \E i \in 1..Len(pipe) : FetchFails(i)
    \/ \E i \in 1..Len(pipe), body \in Bodies : FetchMalformed(i, body)

PlanStep ==
    \E i \in 1..Len(pipe) : \E fault \in Faults(pipe[i].adapter, pipe[i].items) : Plan(i, fault)

CommitStep ==
    \E i \in 1..Len(pipe) : \E order \in Orders(1..Len(pipe[i].bulkOps)) : Commit(i, order)

\* ENABLED <<PlanStep>>_vars, written out: a pass that has its feed can
\* always plan (with no store call rejecting) and planning changes its pc
PlanPending ==
    /\ trig.phase = "running"
    /\ \E i \in 1..Len(pipe) : pipe[i].pc = "plan"

\* Every awaited fetch and store call eventually returns or fails, and the
\* event loop then runs the continuation waiting for it: a pending pass
\* takes its next step, and the route's continuation after Promise.allSettled
\* runs once every pass has settled.  Triggers are not forced to arrive.
\* The second conjunct is WF_vars(PlanStep) with its ENABLED written out.
LiveSpec ==
    /\ Spec
    /\ WF_vars(FetchStep)
    /\ ([]<>(~PlanPending) \/ []<><<PlanStep>>_vars)
    /\ WF_vars(CommitStep)
    /\ WF_vars(Respond)

(***************************************************************************)
(* Properties                                                              *)
(***************************************************************************)
Triple(r) == <<r.vendorId, r.product, r.condition>>

Slots == 1..Len(pipe)

\* a pass whose fetch resolved and none of whose store calls rejected
Undisturbed(p) == p.adapter # "nosync" /\ p.error # "fetch" /\ p.fault = NoFault

\* the groups of a Wholecell pass whose product is in the catalog, each with
\* its product and its freshly aggregated options
WholecellGroups(p) ==
    LET groupedItems == groupItemsByProductAndCondition(p.items)
    IN  {[g |-> g,
          product |-> findExistingProduct(groupedItems[g].product, p.catalog).doc._id,
          options |-> createSelectedOptionsForWholecell(groupedItems[g].items,
                          p.catalog, trig.n, 0, g)] :
            g \in {h \in 1..Len(groupedItems) :
                      findExistingProduct(groupedItems[h].product, p.catalog).found}}

HasStock(options) == \E k \in 1..Len(options) : options[k].stock > 0

\* the (product, condition) pairs the feed of a Wholecell pass has stock for
WholecellCombinations(p) ==
    {<<grp.product, fixedConditionId>> : grp \in {x \in WholecellGroups(p) : HasStock(x.options)}}

\* options compared without their generated ids
Bare(options) ==
    [k \in 1..Len(options) |->
        [color |-> options[k].color, variant |-> options[k].variant,
         stock |-> options[k].stock, price |-> options[k].price,
         discount |-> options[k].discount, uniqueNumbers |-> options[k].uniqueNumbers]]

\* C1: after any sequence of reconciliation passes, no two persisted
\* vendor-product records share the same (vendorId, product, condition).
C1_UniqueTriple ==
    \A r \in vendorProducts : \A q \in vendorProducts :
        Triple(r) = Triple(q) => r._id = q._id

\* C2: a fulfilled pass leaves every record of the vendor whose (product,
\* condition) is absent from the aggregated feed with the same identity and
\* options, each option with stock 0 and no unit identifier.  (A generic pass
\* is fulfilled only on an empty feed, where no combination is present.)
C2_AbsentZeroed ==
    \A i \in Slots :
        (pipe[i].pc = "done" /\ Undisturbed(pipe[i])) =>
            \A r \in pipe[i].pre :
                (pipe[i].adapter = "wholecell" =>
                    <<r.product, r.condition>> \notin WholecellCombinations(pipe[i]))
                => \E q \in vendorProducts :
                      /\ q._id = r._id
                      /\ Triple(q) = Triple(r)
                      /\ q.selectedOptions = ZeroedOptions(r.selectedOptions)

\* C3: a group whose every derived option has stock 0 produces no create, and
\* if a record exists for its (vendor, product, condition) the batch holds a
\* zero-out of that record.  Stated for the Wholecell adapter.
C3_ZeroStockGroupZeroesOut ==
    \A i \in Slots :
        (pipe[i].adapter = "wholecell" /\ pipe[i].pc \in {"commit", "done"}
            /\ Undisturbed(pipe[i])) =>
            \A grp \in WholecellGroups(pipe[i]) :
                ~HasStock(grp.options) =>
                    /\ \A k \in 1..Len(pipe[i].bulkOps) :
                          ~(pipe[i].bulkOps[k].g = grp.g
                              /\ pipe[i].bulkOps[k].op = "insertOne")
                    /\ \A r \in pipe[i].pre :
                          (r.product = grp.product /\ r.condition = fixedConditionId) =>
                              \E k \in 1..Len(pipe[i].bulkOps) :
                                  /\ pipe[i].bulkOps[k].op = "updateOne"
                                  /\ pipe[i].bulkOps[k].filter.by = "_id"
                                  /\ pipe[i].bulkOps[k].filter._id = r._id
                                  /\ pipe[i].bulkOps[k].set.selectedOptions
                                         = ZeroedOptions(r.selectedOptions)

\* C4 (as stated): the second of two Wholecell passes of a vendor with the
\* same feed and catalog, both fulfilled, emits no create, and every update
\* it emits leaves each option's stock at the value the record held after the
\* first pass.
LastIndexOf(options, key) ==
    IF \E k \in 1..Len(options) : OptionKey(options[k].color, options[k].variant) = key
    THEN CHOOSE k \in 1..Len(options) :
            /\ OptionKey(options[k].color, options[k].variant) = key
            /\ \A j \in (k + 1)..Len(options) :
                  OptionKey(options[j].color, options[j].variant) # key
    ELSE 0

StockAt(options, key) ==
    IF LastIndexOf(options, key) = 0 THEN 0 ELSE options[LastIndexOf(options, key)].stock

\* slot i holds the second pass: the vendor's previous pass was a fulfilled
\* Wholecell pass over the same feed and catalog, and this one is fulfilled
SecondRun(i) ==
    /\ pipe[i].adapter = "wholecell"
    /\ pipe[i].pc = "done"
    /\ pipe[i].fault = NoFault
    /\ prev[pipe[i].vendorId].kind = "fulfilled"
    /\ prev[pipe[i].vendorId].items = pipe[i].items
    /\ prev[pipe[i].vendorId].catalog = pipe[i].catalog

NoCreates(bulkOps) == \A k \in 1..Len(bulkOps) : bulkOps[k].op # "insertOne"

C4_SecondRunStockEqual ==
    \A i \in Slots :
        SecondRun(i) =>
            /\ NoCreates(pipe[i].bulkOps)
            /\ \A k \in 1..Len(pipe[i].bulkOps) :
                  \A j \in 1..Len(pipe[i].bulkOps[k].set.selectedOptions) :
                      pipe[i].bulkOps[k].set.selectedOptions[j].stock
                        = StockAt(pipe[i].bulkOps[k].read.selectedOptions,
                              OptionKey(pipe[i].bulkOps[k].set.selectedOptions[j].color,
                                        pipe[i].bulkOps[k].set.selectedOptions[j].variant))

\* C4 (amended): under the same conditions, with no store call of either pass
\* rejecting, the second pass emits no create, and every update it emits sets
\* each option's stock to the stock the record held after the first pass plus
\* the stock freshly aggregated from the feed for that option.
C4_SecondRunAdditive ==
    \A i \in Slots :
        SecondRun(i) =>
            /\ NoCreates(pipe[i].bulkOps)
            /\ \A k \in 1..Len(pipe[i].bulkOps) :
                  \A j \in 1..Len(pipe[i].bulkOps[k].set.selectedOptions) :
                      pipe[i].bulkOps[k].set.selectedOptions[j].stock
                        = StockAt(pipe[i].bulkOps[k].read.selectedOptions,
                              OptionKey(pipe[i].bulkOps[k].set.selectedOptions[j].color,
                                        pipe[i].bulkOps[k].set.selectedOptions[j].variant))
                          + StockAt(pipe[i].bulkOps[k].aggregated,
                              OptionKey(pipe[i].bulkOps[k].set.selectedOptions[j].color,
                                        pipe[i].bulkOps[k].set.selectedOptions[j].variant))

\* a second pass whose batch of updates was written in full
C4_SecondRunUpdated ==
    \E i \in Slots :
        /\ SecondRun(i)
        /\ pipe[i].bulkOps # <<>>
        /\ Len(pipe[i].applied) = Len(pipe[i].bulkOps)
        /\ \E k \in 1..Len(pipe[i].bulkOps) :
              /\ pipe[i].bulkOps[k].op = "updateOne"
              /\ SumStock(pipe[i].bulkOps[k].aggregated) > 0
              /\ SumStock(pipe[i].bulkOps[k].read.selectedOptions) > 0

\* C5: no step of any pass, of either adapter, over any feed, and whether or
\* not its bulkWrite applies in full, removes a persisted vendor-product
\* record: every record identity persisted before a step is persisted after
\* it, with the same (vendorId, product, condition).
C5_NeverDeleted ==
    [][\A r \in vendorProducts :
          \E q \in vendorProducts' : q._id = r._id /\ Triple(q) = Triple(r)]_vars

\* a zero-out batch of which the server applied a part and rejected the rest
C5_PartlyZeroed ==
    \E i \in Slots :
        /\ pipe[i].error = "bulkWrite"
        /\ pipe[i].applied # <<>>
        /\ \E r \in pipe[i].pre :
              \E q \in vendorProducts :
                  /\ q._id = r._id
                  /\ SumStock(r.selectedOptions) > 0
                  /\ SumStock(q.selectedOptions) = 0

\* C6: when the route answers, the summary has one entry per configured
\* vendor at that vendor's position; the entry of a vendor whose pipeline
\* failed (at the fetch, in the plan or in the bulkWrite) carries the
\* vendorId and an error and none of the counts; the entry of every other
\* synced vendor is the success summary of its pass run alone on the store
\* the trigger found, and that vendor's persisted records are those its pass
\* alone leaves there.
CountFields ==
    {"totalFetched", "newVendorProducts", "updatedVendorProducts", "totalOperations"}

\* the pass of slot i run alone on the store the trigger found
SoloPlan(i) ==
    PlanOf(pipe[i], pipe[i].catalog, trig.store, pipe[i].fault, trig.n, i)

RecordsOf(store, vendorId) == {r \in store : r.vendorId = vendorId}

C6_IsolatedSummary ==
    (trig.phase = "responded" /\ response.status = 200 /\ trig.apis # <<>>) =>
        /\ Len(response.summary) = Len(trig.apis)
        /\ \A i \in 1..Len(trig.apis) :
              /\ response.summary[i].vendorId = trig.apis[i].vendorId
              /\ pipe[i].pc = "failed" =>
                    /\ "error" \in DOMAIN response.summary[i]
                    /\ response.summary[i].error = pipe[i].error
                    /\ DOMAIN response.summary[i] \cap CountFields = {}
              /\ (pipe[i].pc = "done" /\ pipe[i].adapter # "nosync") =>
                    /\ response.summary[i] = SoloPlan(i).summary
                    /\ CountFields \subseteq DOMAIN response.summary[i]
                    /\ RecordsOf(vendorProducts, pipe[i].vendorId)
                         = RecordsOf(ApplyOps(trig.store, SoloPlan(i).bulkOps,
                                              pipe[i].applied),
                                     pipe[i].vendorId)

\* two vendors in one trigger: one pipeline failed, the other wrote its batch
C6_OneFailedOneWritten ==
    /\ trig.phase = "responded"
    /\ response.status = 200
    /\ \E i \in Slots : \E j \in Slots :
          /\ pipe[i].pc = "failed"
          /\ pipe[j].pc = "done"
          /\ pipe[j].applied # <<>>
          /\ "error" \in DOMAIN response.summary[i]
          /\ "totalOperations" \in DOMAIN response.summary[j]

\* C7: a store call that rejects while one product group is processed (the
\* lookup or creation of its product, or its aggregation) is caught at the
\* group: the pass does not reject in its plan, and the group is the only one
\* without operations.  Stated for the Wholecell adapter.
StockedGroupsBut(p, g) ==
    {grp \in WholecellGroups(p) : grp.g # g /\ HasStock(grp.options)}

C7_GroupFaultCaught ==
    \A i \in Slots :
        (pipe[i].adapter = "wholecell" /\ pipe[i].fault.g >= 1
            /\ pipe[i].pc \in {"commit", "done", "failed"}) =>
            /\ pipe[i].error # "plan"
            /\ \A grp \in StockedGroupsBut(pipe[i], pipe[i].fault.g) :
                  \E k \in 1..Len(pipe[i].bulkOps) : pipe[i].bulkOps[k].g = grp.g

\* C8: when the bulkWrite fails for some operations, the vendor's entry in
\* the summary still carries the counts, and they equal the numbers of
\* inserts and of updates the server applied.
AppliedOps(p, kind) ==
    {k \in 1..Len(p.applied) : p.bulkOps[p.applied[k]].op = kind}

C8_PartialCounts ==
    (trig.phase = "responded" /\ response.status = 200) =>
        \A i \in Slots :
            pipe[i].error = "bulkWrite" =>
                /\ {"newVendorProducts", "updatedVendorProducts", "totalOperations"}
                      \subseteq DOMAIN response.summary[i]
                /\ response.summary[i].newVendorProducts
                      = Cardinality(AppliedOps(pipe[i], "insertOne"))
                /\ response.summary[i].totalOperations = Len(pipe[i].applied)

\* C9: in a pass none of whose calls rejected, every (product, condition)
\* with stock in the feed and no persisted record of the vendor gets exactly
\* one insert, carrying the vendor, the product, the condition and the
\* freshly aggregated options, and the summary counts it.  For the generic
\* adapter this is stated for a vendor with no persisted record at all.
GenericStocked(p) ==
    {g \in 1..Len(groupItemsByProductAndCondition(p.items)) :
        HasStock(createSelectedOptions(
                     groupItemsByProductAndCondition(p.items)[g].items, trig.n, 0, g))}

InsertsFor(p, product, condition) ==
    {k \in 1..Len(p.bulkOps) :
        /\ p.bulkOps[k].op = "insertOne"
        /\ p.bulkOps[k].document.vendorId = p.vendorId
        /\ p.bulkOps[k].document.product = product
        /\ p.bulkOps[k].document.condition = condition}

NoRecordFor(p, combination) ==
    \A r \in p.pre : <<r.product, r.condition>> # combination

C9_CreatedOnce ==
    \A i \in Slots :
        (Undisturbed(pipe[i]) /\ Settled(pipe[i]) /\ pipe[i].error # "bulkWrite") =>
            /\ pipe[i].adapter = "wholecell" =>
                  \A c \in WholecellCombinations(pipe[i]) :
                      NoRecordFor(pipe[i], c) =>
                          /\ pipe[i].pc = "done"
                          /\ Cardinality(InsertsFor(pipe[i], c[1], c[2])) = 1
                          /\ pipe[i].summary.newVendorProducts >= 1
            /\ (pipe[i].adapter = "generic" /\ pipe[i].pre = {}
                   /\ GenericStocked(pipe[i]) # {}) =>
                  /\ pipe[i].pc = "done"
                  /\ Cardinality({k \in 1..Len(pipe[i].bulkOps) :
                                     pipe[i].bulkOps[k].op = "insertOne"})
                        = Cardinality(GenericStocked(pipe[i]))
                  /\ pipe[i].summary.newVendorProducts
                        = Cardinality(GenericStocked(pipe[i]))

\* C10: in a generic pass none of whose calls rejected, a group with stock
\* whose product has a persisted record of the vendor (the record carrying
\* the group's condition) yields an update of that record whose options are
\* exactly the freshly aggregated ones, counted as updated in the summary.
GenericProduct(p, g) ==
    FindOnePartial(p.catalog,
                   ProductName(groupItemsByProductAndCondition(p.items)[g].product))

C10_GenericReplace ==
    \A i \in Slots :
        (pipe[i].adapter = "generic" /\ Undisturbed(pipe[i]) /\ Settled(pipe[i])
            /\ pipe[i].error # "bulkWrite") =>
            \A g \in GenericStocked(pipe[i]) :
                \A r \in pipe[i].pre :
                    (GenericProduct(pipe[i], g).found
                        /\ r.product = GenericProduct(pipe[i], g).doc._id) =>
                        /\ pipe[i].pc = "done"
                        /\ pipe[i].summary.updatedVendorProducts >= 1
                        /\ \E k \in 1..Len(pipe[i].bulkOps) :
                              /\ pipe[i].bulkOps[k].op = "updateOne"
                              /\ pipe[i].bulkOps[k].g = g
                              /\ \E q \in vendorProducts :
                                    /\ q._id = r._id
                                    /\ Bare(q.selectedOptions)
                                         = Bare(pipe[i].bulkOps[k].set.selectedOptions)
                                    /\ Bare(q.selectedOptions)
                                         = Bare(createSelectedOptions(
                                               groupItemsByProductAndCondition(
                                                   pipe[i].items)[g].items,
                                               trig.n, 0, g))

\* C11: for the Wholecell adapter, the options aggregated for a group are
\* exactly one per distinct (color, variant) among the group's Available
\* items; an option's stock is the number of those items, its unit
\* identifiers are theirs in feed order (esn, else hex_id, else sku, else the
\* synthetic item id), its price is the first such item's price paid in cents
\* divided by 100 and rounded, and its discount is its price; items of any
\* other status contribute nothing.
RECURSIVE AvailableWith(_, _, _, _)
AvailableWith(rest, items, catalog, pair) ==
    IF rest = <<>> THEN <<>>
    ELSE IF Head(rest).status = "Available"
              /\ <<ColorOf(Head(rest)), WholecellVariant(Head(rest), items, catalog)>>
                   = pair
         THEN <<Head(rest)>> \o AvailableWith(Tail(rest), items, catalog, pair)
         ELSE AvailableWith(Tail(rest), items, catalog, pair)

FirstNonEmpty(ids) ==
    IF \E k \in 1..Len(ids) : ids[k] # ""
    THEN ids[CHOOSE k \in 1..Len(ids) : ids[k] # "" /\ \A j \in 1..(k - 1) : ids[j] = ""]
    ELSE ""

UnitOf(item) == FirstNonEmpty(<<item.esn, item.hex_id, item.sku, SyntheticItemId(item.id)>>)

OptionCounts(option, mine) ==
    /\ mine # <<>>
    /\ option.stock = Len(mine)
    /\ option.uniqueNumbers = [m \in 1..Len(mine) |-> UnitOf(mine[m])]
    /\ 100 * option.price - 50 <= mine[1].total_price_paid
    /\ mine[1].total_price_paid < 100 * option.price + 50
    /\ option.discount = option.price

AggregatedAsClaimed(aggregated, items, catalog) ==
    /\ \A j \in 1..Len(items) :
          items[j].status = "Available" =>
              Cardinality({n \in 1..Len(aggregated) :
                              <<aggregated[n].color, aggregated[n].variant>>
                                = <<ColorOf(items[j]),
                                    WholecellVariant(items[j], items, catalog)>>}) = 1
    /\ \A n \in 1..Len(aggregated) :
          OptionCounts(aggregated[n],
              AvailableWith(items, items, catalog,
                            <<aggregated[n].color, aggregated[n].variant>>))

GroupItems(p, g) == groupItemsByProductAndCondition(p.items)[g].items

C11_OneOptionPerKey ==
    \A i \in Slots :
        pipe[i].adapter = "wholecell" =>
            \A k \in 1..Len(pipe[i].bulkOps) :
                AggregatedAsClaimed(pipe[i].bulkOps[k].aggregated,
                                    GroupItems(pipe[i], pipe[i].bulkOps[k].g),
                                    pipe[i].catalog)

\* a group with a Sold item and Available items of two keys, identified by
\* esn, hex_id and sku
C11_TwoKeysAggregated ==
    \E i \in Slots :
        /\ pipe[i].adapter = "wholecell"
        /\ \E k \in 1..Len(pipe[i].bulkOps) :
              /\ Len(pipe[i].bulkOps[k].aggregated) = 2
              /\ pipe[i].bulkOps[k].aggregated[1].uniqueNumbers = <<"e2", "e1">>
              /\ pipe[i].bulkOps[k].aggregated[2].uniqueNumbers = <<"h7", "s8">>
              /\ pipe[i].bulkOps[k].aggregated[2].price = 51
              /\ \E j \in 1..Len(GroupItems(pipe[i], pipe[i].bulkOps[k].g)) :
                    GroupItems(pipe[i], pipe[i].bulkOps[k].g)[j].status = "Sold"

\* C12: in a fulfilled Wholecell pass, every group whose manufacturer/model
\* names no catalog product (no name equal up to case and, for a name longer
\* than 3 characters, no name containing it) is counted in skippedProducts,
\* skippedProducts + validProducts is the number of groups, a skipped group
\* yields no operation, every other group with stock still yields one, and
\* the catalog is the one the pass found.
NamesNoProduct(productData, catalog) ==
    \A n \in 1..Len(catalog) :
        /\ ToLower(catalog[n].name) # ToLower(ProductName(productData))
        /\ Len(ProductName(productData)) > 3 =>
              ~Includes(ToLower(catalog[n].name), ToLower(ProductName(productData)))

SkippedGroups(p) ==
    {g \in 1..Len(groupItemsByProductAndCondition(p.items)) :
        NamesNoProduct(groupItemsByProductAndCondition(p.items)[g].product, p.catalog)}

OpsOfGroups(p, groups) == {k \in 1..Len(p.bulkOps) : p.bulkOps[k].g \in groups}

C12_UnmatchedSkipped ==
    \A i \in Slots :
        (pipe[i].adapter = "wholecell" /\ pipe[i].pc = "done") =>
            /\ pipe[i].summary.skippedProducts = Cardinality(SkippedGroups(pipe[i]))
            /\ pipe[i].summary.skippedProducts + pipe[i].summary.validProducts
                  = Len(groupItemsByProductAndCondition(pipe[i].items))
            /\ OpsOfGroups(pipe[i], SkippedGroups(pipe[i])) = {}
            /\ \A grp \in StockedGroupsBut(pipe[i], pipe[i].fault.g) :
                  OpsOfGroups(pipe[i], {grp.g}) # {}
            /\ products = pipe[i].catalog

\* a fulfilled pass that skipped one group and wrote the operation of another
C12_SkippedAndWritten ==
    \E i \in Slots :
        /\ pipe[i].adapter = "wholecell"
        /\ pipe[i].pc = "done"
        /\ pipe[i].summary.skippedProducts = 1
        /\ pipe[i].summary.validProducts = 1
        /\ pipe[i].applied # <<>>

\* C13: no two operations of the batch a pass emits target the same record
\* identity: the same (vendorId, product, condition) or the same record id.
TargetOf(op) ==
    IF op.op = "insertOne" THEN Triple(op.document)
    ELSE IF op.filter.by = "_id" THEN <<"_id", op.filter._id>>
    ELSE <<op.filter.vendorId, op.filter.product, op.filter.condition>>

C13_DisjointTargets ==
    \A i \in Slots :
        \A k \in 1..Len(pipe[i].bulkOps) :
            \A j \in 1..Len(pipe[i].bulkOps) :
                TargetOf(pipe[i].bulkOps[k]) = TargetOf(pipe[i].bulkOps[j]) => k = j

\* C14: in any interleaving of the pipelines of vendors with distinct
\* vendorIds, a step changes the persisted records of a vendor only when it
\* is the bulkWrite of that vendor's own pipeline.
C14_OwnPartitionOnly ==
    [][\A v \in VendorIds :
          RecordsOf(vendorProducts', v) # RecordsOf(vendorProducts, v) =>
              \E i \in Slots :
                  /\ pipe[i].vendorId = v
                  /\ pipe[i].pc = "commit"
                  /\ pipe'[i].pc # "commit"]_vars

\* two vendors in flight: one has written its batch over its own records
\* while the other, planned on the same store, has not written yet
C14_TwoVendorsWriting ==
    \E i \in Slots : \E j \in Slots :
        /\ pipe[i].vendorId # pipe[j].vendorId
        /\ pipe[i].applied # <<>>
        /\ pipe[j].pc = "commit"
        /\ RecordsOf(vendorProducts, pipe[i].vendorId) # RecordsOf(trig.store, pipe[i].vendorId)
        /\ RecordsOf(vendorProducts, pipe[j].vendorId) # {}

\* C15: for either adapter, a fetch whose body is not an object with a `data`
\* array is taken as an empty item list: the pass does not fail on the body,
\* and when it is fulfilled its summary reports totalFetched = 0.
C15_MalformedBodyIsEmpty ==
    \A i \in Slots :
        pipe[i].body \in Bodies =>
            /\ pipe[i].error # "body"
            /\ pipe[i].items = <<>>
            /\ pipe[i].pc = "done" => pipe[i].summary.totalFetched = 0

IndexOfPair(options, color, variant) ==
    IF \E k \in 1..Len(options) : options[k].color = color /\ options[k].variant = variant
    THEN CHOOSE k \in 1..Len(options) :
            options[k].color = color /\ options[k].variant = variant
    ELSE 0

RECURSIVE NewOnly(_, _)
NewOnly(existingOptions, newOptions) ==
    IF newOptions = <<>> THEN <<>>
    ELSE IF IndexOfPair(existingOptions, Head(newOptions).color,
                        Head(newOptions).variant) = 0
         THEN <<Head(newOptions)>> \o NewOnly(existingOptions, Tail(newOptions))
         ELSE NewOnly(existingOptions, Tail(newOptions))

MergedAsClaimed(existing, opt, merged) ==
    /\ merged._id = existing._id
    /\ merged.color = existing.color
    /\ merged.variant = existing.variant
    /\ merged.stock = existing.stock + opt.stock
    /\ merged.uniqueNumbers = existing.uniqueNumbers \o opt.uniqueNumbers
    /\ merged.price <= existing.price
    /\ merged.price <= opt.price
    /\ merged.price \in {existing.price, opt.price}
    /\ merged.discount = merged.price

MergeAsClaimed(existingOptions, newOptions, merged) ==
    /\ Len(merged) = Len(existingOptions) + Len(NewOnly(existingOptions, newOptions))
    /\ \A k \in 1..Len(existingOptions) :
          IF IndexOfPair(newOptions, existingOptions[k].color,
                         existingOptions[k].variant) = 0
          THEN merged[k] = existingOptions[k]
          ELSE MergedAsClaimed(existingOptions[k],
                   newOptions[IndexOfPair(newOptions, existingOptions[k].color,
                                          existingOptions[k].variant)],
                   merged[k])
    /\ \A k \in 1..Len(NewOnly(existingOptions, newOptions)) :
          merged[Len(existingOptions) + k] = NewOnly(existingOptions, newOptions)[k]

C17_MergePolicy ==
    \A i \in Slots :
        pipe[i].adapter = "wholecell" =>
            \A k \in 1..Len(pipe[i].bulkOps) :
                pipe[i].bulkOps[k].op = "updateOne" =>
                    MergeAsClaimed(pipe[i].bulkOps[k].read.selectedOptions,
                                   pipe[i].bulkOps[k].aggregated,
                                   pipe[i].bulkOps[k].set.selectedOptions)

\* a merge of one existing option at price 100 with two new options, one of
\* the same key at price 90 and one of a new key
C17_MergedBothAndNew ==
    \E i \in Slots :
        \E k \in 1..Len(pipe[i].bulkOps) :
            /\ pipe[i].bulkOps[k].op = "updateOne"
            /\ pipe[i].bulkOps[k].filter.by = "triple"
            /\ Len(pipe[i].bulkOps[k].read.selectedOptions) = 1
            /\ Len(pipe[i].bulkOps[k].aggregated) = 2
            /\ Len(pipe[i].bulkOps[k].set.selectedOptions) = 2
            /\ pipe[i].bulkOps[k].read.selectedOptions[1].price = 100
            /\ pipe[i].bulkOps[k].set.selectedOptions[1].price = 90
            /\ pipe[i].bulkOps[k].set.selectedOptions[1].stock = 3

\* C18: the resolver returns a product found by a substring match only when
\* creation is not allowed (Wholecell) and the candidate name is longer than
\* 3 characters; with creation allowed (generic) a group's product is an
\* existing product of the same name up to case, else a new product of that
\* name, so after the groups of a generic pass are resolved the catalog holds
\* a product named as each group.
NamedInCatalog(productData, catalog) ==
    \E n \in 1..Len(catalog) :
        ToLower(catalog[n].name) = ToLower(ProductName(productData))

C18_ExactOrCreated ==
    \A i \in Slots :
        /\ (pipe[i].adapter = "wholecell" /\ pipe[i].fault = NoFault) =>
              \A grp \in WholecellGroups(pipe[i]) :
                  \/ NamedInCatalog(
                         groupItemsByProductAndCondition(pipe[i].items)[grp.g].product,
                         pipe[i].catalog)
                  \/ Len(ProductName(
                         groupItemsByProductAndCondition(pipe[i].items)[grp.g].product)) > 3
        /\ (pipe[i].adapter = "generic" /\ pipe[i].fault = NoFault
               /\ pipe[i].body = "data" /\ pipe[i].pc \in {"commit", "done", "failed"}) =>
              \A g \in 1..Len(groupItemsByProductAndCondition(pipe[i].items)) :
                  NamedInCatalog(groupItemsByProductAndCondition(pipe[i].items)[g].product,
                                 products)

\* C19: no persisted record ever holds two options with the same (color,
\* variant), and an option a record holds before a step of a pass is held
\* after it with the same option id.
UniqueOptionKeys(store) ==
    \A r \in store :
        \A k \in 1..Len(r.selectedOptions) :
            \A j \in 1..Len(r.selectedOptions) :
                (r.selectedOptions[k].color = r.selectedOptions[j].color
                    /\ r.selectedOptions[k].variant = r.selectedOptions[j].variant)
                => k = j

OptionIdsKept(before, after) ==
    \A k \in 1..Len(before) :
        \E j \in 1..Len(after) :
            /\ after[j].color = before[k].color
            /\ after[j].variant = before[k].variant
            /\ after[j]._id = before[k]._id

C19_StableOptionKeys ==
    /\ UniqueOptionKeys(vendorProducts)
    /\ [][/\ UniqueOptionKeys(vendorProducts')
          /\ \A r \in vendorProducts :
                \A q \in vendorProducts' :
                    q._id = r._id =>
                        OptionIdsKept(r.selectedOptions, q.selectedOptions)]_vars

\* a persisted record a Wholecell update has merged a second key into
C19_RecordMerged ==
    \E r \in trig.store :
        \E q \in vendorProducts :
            /\ q._id = r._id
            /\ Len(q.selectedOptions) > Len(r.selectedOptions)
            /\ SumStock(q.selectedOptions) > SumStock(r.selectedOptions)

\* C20: in the Wholecell adapter, when an Available item reports a capacity
\* and the catalog product matched for its group has a storage specification
\* with a token containing `${capacity}GB`, the item is counted under an
\* option whose variant is such a token, verbatim.
TokensFor(storageSpec, capacity) ==
    {Split(storageSpec)[n] : n \in {m \in 1..Len(Split(storageSpec)) :
                                       Includes(Split(storageSpec)[m], capacity \o sGB)}}

CountedUnderToken(item, aggregated, tokens) ==
    tokens # {} =>
        \E n \in 1..Len(aggregated) :
            /\ aggregated[n].color = ColorOf(item)
            /\ aggregated[n].variant \in tokens
            /\ \E u \in 1..Len(aggregated[n].uniqueNumbers) :
                  aggregated[n].uniqueNumbers[u] = UnitOf(item)

GroupProduct(p, g) ==
    findExistingProduct(groupItemsByProductAndCondition(p.items)[g].product, p.catalog).doc

C20_VariantIsStorageToken ==
    \A i \in Slots :
        pipe[i].adapter = "wholecell" =>
            \A k \in 1..Len(pipe[i].bulkOps) :
                \A j \in 1..Len(GroupItems(pipe[i], pipe[i].bulkOps[k].g)) :
                    (GroupItems(pipe[i], pipe[i].bulkOps[k].g)[j].status = "Available"
                        /\ GroupItems(pipe[i], pipe[i].bulkOps[k].g)[j].capacity # sEmpty) =>
                        CountedUnderToken(
                            GroupItems(pipe[i], pipe[i].bulkOps[k].g)[j],
                            pipe[i].bulkOps[k].aggregated,
                            TokensFor(GroupProduct(pipe[i], pipe[i].bulkOps[k].g).storage,
                                GroupItems(pipe[i], pipe[i].bulkOps[k].g)[j].capacity))

\* C23: every option of every persisted record holds as many unit
\* identifiers as its stock says, in the store the program starts from and
\* after every step of every pass (creates, additive merges, zero-outs).
StockCountsUnits(store) ==
    \A r \in store :
        \A k \in 1..Len(r.selectedOptions) :
            r.selectedOptions[k].stock = Len(r.selectedOptions[k].uniqueNumbers)

C23_StockIsUnitCount == StockCountsUnits(vendorProducts)

\* a store in which one pass has merged units into a persisted record and
\* created another record, both holding stock
C23_MergedAndCreated ==
    /\ StockCountsUnits(trig.store)
    /\ \E r \in trig.store :
          \E q \in vendorProducts :
              /\ q._id = r._id
              /\ SumStock(q.selectedOptions) > SumStock(r.selectedOptions)
    /\ \E q \in vendorProducts :
          /\ \A r \in trig.store : r._id # q._id
          /\ SumStock(q.selectedOptions) > 0

\* C24: in the success summary of every fulfilled pass, totalOperations is
\* the number of operations of the batch the bulkWrite applied in full, and
\* is newVendorProducts + updatedVendorProducts + markedAsOutOfStock for the
\* generic adapter and newVendorProducts + updatedVendorProducts for the
\* Wholecell adapter; the route's answer carries that summary.
SummaryCountsBatch(p) ==
    /\ p.summary.totalOperations = Len(p.bulkOps)
    /\ Len(p.applied) = Len(p.bulkOps)
    /\ \A k \in 1..Len(p.bulkOps) : \E j \in 1..Len(p.applied) : p.applied[j] = k
    /\ p.adapter = "generic" =>
           p.summary.totalOperations =
               p.summary.newVendorProducts + p.summary.updatedVendorProducts
                   + p.summary.markedAsOutOfStock
    /\ p.adapter = "wholecell" =>
           p.summary.totalOperations =
               p.summary.newVendorProducts + p.summary.updatedVendorProducts

C24_TotalOperations ==
    /\ \A i \in Slots :
          (pipe[i].pc = "done" /\ pipe[i].adapter # "nosync")
              => SummaryCountsBatch(pipe[i])
    /\ (trig.phase = "responded" /\ response.status = 200) =>
          \A i \in Slots :
              (pipe[i].pc = "done" /\ pipe[i].adapter # "nosync")
                  => response.summary[i] = pipe[i].summary

\* the answer of a route one of whose Wholecell passes inserted a record and
\* updated another
C24_InsertAndUpdateAnswered ==
    /\ trig.phase = "responded"
    /\ response.status = 200
    /\ \E i \in Slots :
          /\ pipe[i].pc = "done"
          /\ pipe[i].adapter = "wholecell"
          /\ response.summary[i].newVendorProducts >= 1
          /\ response.summary[i].updatedVendorProducts >= 1
          /\ response.summary[i].totalOperations = 2

\* C25: a trigger whose pipelines have started has sent no response while it
\* runs; a response is sent either by a trigger that ends before any pipeline
\* starts or by a running trigger all of whose pipelines have settled
\* (succeeded or failed); once a trigger has responded nothing happens but
\* the arrival of another trigger, so it responds once; and, every fetch and
\* store call eventually returning or failing, every running trigger
\* eventually responds.
TriggerArrives ==
    \/ \E route \in Routes : StartTrigger(route)
    \/ \E route \in Routes : OrchestratorFails(route)

AllPassesSettled == \A i \in Slots : pipe[i].pc \in {"done", "failed"}

C25_RespondsOnceAfterSettling ==
    /\ [](trig.phase = "running" => response = NoResponse)
    /\ [][response' # response =>
             \/ TriggerArrives
             \/ /\ trig.phase = "running"
                /\ AllPassesSettled
                /\ pipe' = pipe
                /\ trig'.phase = "responded"]_vars
    /\ [][trig.phase = "responded" => TriggerArrives]_vars
    /\ (trig.phase = "running") ~> (trig.phase = "responded" /\ response # NoResponse)

\* a trigger that has answered after one of its two passes failed and the
\* other committed a batch
C25_AnsweredAfterBothSettled ==
    /\ trig.phase = "responded"
    /\ response.status = 200
    /\ \E i \in Slots : \E j \in Slots :
          /\ pipe[i].pc = "failed"
          /\ pipe[j].pc = "done"
          /\ pipe[j].applied # <<>>

(***************************************************************************)
(* Overlapping triggers                                                    *)
(***************************************************************************)
\* Two triggers of the /wholecell route in flight over the one configured
\* vendor: pipe[1] is the pass the first handler started and pipe[2] the
\* pass the second started.  Nothing orders the continuations of the two
\* passes; the handlers' responses are left out.
InitOverlap ==
    /\ products = InitialCatalog
    /\ vendorApis = <<ApiA>>
    /\ vendorProducts \in {{}, {RecA1}, {RecA1, RecA2, RecB1}}
    /\ trig = [phase |-> "running", route |-> "wholecell", n |-> 1,
               apis |-> <<ApiA, ApiA>>, store |-> vendorProducts]
    /\ pipe = <<NewPipeline("wholecell", ApiA), NewPipeline("wholecell", ApiA)>>
    /\ response = NoResponse
    /\ runs = 2
    /\ prev = [v \in VendorIds |-> NoPass]
    /\ SidesAtRest

NextOverlap == FetchStep \/ PlanStep \/ CommitStep

SpecOverlap == InitOverlap /\ [][NextOverlap]_vars

\* C22: when two Wholecell passes for the same vendor, started by two
\* overlapping triggers, have both committed their batches in full with no
\* store call rejecting, the persisted records are those the two passes
\* leave when run one after the other in some order (ids apart): as many
\* records, with the same vendor, product, condition and options.
WholeOrders(bulkOps) ==
    {order \in Orders(1..Len(bulkOps)) : Len(order) = Len(bulkOps)}

PassAloneFrom(store, plan) ==
    {ApplyOps(store, plan.bulkOps, order) : order \in WholeOrders(plan.bulkOps)}

\* the stores pass i can leave when it runs alone on `store`
PassAlone(store, i) ==
    PassAloneFrom(store,
        PlanWholecell(pipe[i].vendorId, pipe[i].items, products, store,
                      NoFault, trig.n, i))

\* the stores the two passes can leave when pass i runs to its end before
\* pass j starts
OneAfterTheOther(i, j) ==
    UNION {PassAlone(store, j) : store \in PassAlone(trig.store, i)}

Content(store) ==
    {[vendorId |-> r.vendorId, product |-> r.product, condition |-> r.condition,
      selectedOptions |-> Bare(r.selectedOptions)] : r \in store}

SameRecords(store, serial) ==
    /\ Cardinality(store) = Cardinality(serial)
    /\ Content(store) = Content(serial)

BothCommitted ==
    \A i \in 1..2 :
        /\ pipe[i].pc = "done"
        /\ pipe[i].body = "data"
        /\ pipe[i].fault = NoFault

C22_SerialOutcome ==
    BothCommitted =>
        \E serial \in OneAfterTheOther(1, 2) \cup OneAfterTheOther(2, 1) :
            SameRecords(vendorProducts, serial)

(***************************************************************************)
(* getClient                                                               *)
(***************************************************************************)
\* the store as the routes find it when no sync is in flight
SyncAtRest ==
    /\ products = InitialCatalog
    /\ vendorProducts = {}
    /\ vendorApis = <<ApiA>>
    /\ trig = Idle
    /\ pipe = <<>>
    /\ response = NoResponse
    /\ runs = 0
    /\ prev = [v \in VendorIds |-> NoPass]

\* number of requests that call getClient
MaxCalls == 4

Callers == 1..MaxCalls

NotCalled == [pc |-> "none", id |-> 0, state |-> "none"]

\* `return client`: the caller receives the module's client as it is now
Returned(c) == [pc |-> "returned", id |-> client.id, state |-> client.state]

\* if (!client) { client = new MongoClient(uri); await client.connect(); }
\* return client;  -- up to the await, or to the return when client is set
GetClient(c) ==
    /\ calls[c].pc = "none"
    /\ IF client.state = "none"
       THEN /\ client' = [state |-> "connecting", id |-> c]
            /\ calls' = [calls EXCEPT ![c] = [pc |-> "connecting", id |-> c,
                                              state |-> "none"]]
       ELSE /\ calls' = [calls EXCEPT ![c] = Returned(c)]
            /\ UNCHANGED client
    /\ UNCHANGED <<syncVars, resolver, productsCollection, legacy>>

\* client.connect() resolves: the caller that awaited it returns the client
ConnectResolves(c) ==
    /\ calls[c].pc = "connecting"
    /\ client' = [client EXCEPT !.state = "connected"]
    /\ calls' = [calls EXCEPT ![c] = [pc |-> "returned", id |-> client.id,
                                      state |-> "connected"]]
    /\ UNCHANGED <<syncVars, resolver, productsCollection, legacy>>

\* client.connect() rejects: getClient rejects for the caller that awaited
\* it, and `client` keeps the client that did not connect
ConnectRejects(c) ==
    /\ calls[c].pc = "connecting"
    /\ client' = [client EXCEPT !.state = "failed"]
    /\ calls' = [calls EXCEPT ![c] = [pc |-> "threw", id |-> client.id,
                                      state |-> "failed"]]
    /\ UNCHANGED <<syncVars, resolver, productsCollection, legacy>>

InitClient ==
    /\ SyncAtRest
    /\ resolver = <<>>
    /\ client = NoClient
    /\ calls = [c \in Callers |-> NotCalled]
    /\ productsCollection = <<>>
    /\ legacy = LegacyIdle

NextClient ==
    \/ \E c \in Callers : GetClient(c)
    \/ \E c \in Callers : ConnectResolves(c)
    \/ \E c \in Callers : ConnectRejects(c)

SpecClient == InitClient /\ [][NextClient]_vars

\* C26: every call of getClient that returns a client returns the one client
\* the module constructed, and returns it connected: no caller receives a
\* client whose connect is still pending or has failed.
C26_ConnectedSingleton ==
    \A c \in Callers :
        calls[c].pc = "returned" =>
            /\ calls[c].state = "connected"
            /\ \A d \in Callers : calls[d].pc = "returned" => calls[d].id = calls[c].id

(***************************************************************************)
(* findOrCreateProduct, await by await                                     *)
(***************************************************************************)
\* One trigger of the generic route over two vendors whose passes run
\* concurrently.  The first loop of syncVendor is followed call by call:
\* resolver[i] holds the group pass i is resolving and whether its
\* findOrCreateProduct is about to look the product up or, having found
\* nothing, to insert it.  No store call rejects here.
Resolving(g) == [g |-> g, pc |-> "findOne"]

InitResolve ==
    /\ products = InitialCatalog
    /\ vendorProducts = {RecA1, RecB1}
    /\ vendorApis = <<ApiA, ApiB>>
    /\ trig = [phase |-> "running", route |-> "generic", n |-> 1,
               apis |-> <<ApiA, ApiB>>, store |-> {RecA1, RecB1}]
    /\ pipe = <<NewPipeline("generic", ApiA), NewPipeline("generic", ApiB)>>
    /\ response = NoResponse
    /\ runs = 2
    /\ prev = [v \in VendorIds |-> NoPass]
    /\ resolver = <<Resolving(1), Resolving(1)>>
    /\ client = NoClient
    /\ calls = <<>>
    /\ productsCollection = <<>>
    /\ legacy = LegacyIdle

GroupsOf(i) == groupItemsByProductAndCondition(pipe[i].items)

\* what the rest of the loop body leaves after the product is resolved: the
\* next group's lookup (the aggregation touches no store, and the
\* ReferenceError of a group with stock is caught)
AfterLookup(product, g) ==
    IF product.found THEN Resolving(g + 1) ELSE [g |-> g, pc |-> "insertOne"]

\* let product = await productsCollection.findOne({ name: { $regex: name } })
ResolveFind(i) ==
    /\ trig.phase = "running"
    /\ pipe[i].pc = "plan"
    /\ resolver[i].pc = "findOne"
    /\ resolver[i].g <= Len(GroupsOf(i))
    /\ resolver' = [resolver EXCEPT
           ![i] = AfterLookup(
                      FindOnePartial(products,
                          ProductName(GroupsOf(i)[resolver[i].g].product)),
                      resolver[i].g)]
    /\ UNCHANGED <<syncVars, client, calls, productsCollection, legacy>>

\* if (!product) { ...; await productsCollection.insertOne(newProduct); }
ResolveInsert(i) ==
    /\ trig.phase = "running"
    /\ pipe[i].pc = "plan"
    /\ resolver[i].pc = "insertOne"
    /\ products' = Append(products,
           NewProduct(GroupsOf(i)[resolver[i].g].product,
                      Oid("prod", trig.n, i, resolver[i].g, 1)))
    /\ resolver' = [resolver EXCEPT ![i] = Resolving(resolver[i].g + 1)]
    /\ UNCHANGED <<vendorProducts, vendorApis, trig, pipe, response, runs, prev>>
    /\ UNCHANGED <<client, calls, productsCollection, legacy>>

\* the first loop is over: the find of the persisted records, the second
\* loop and the zero-out
AfterLoop1(i) ==
    /\ trig.phase = "running"
    /\ pipe[i].pc = "plan"
    /\ resolver[i].pc = "findOne"
    /\ resolver[i].g > Len(GroupsOf(i))
    /\ Planned(i, NoFault,
           GenericLooped(pipe[i].vendorId, pipe[i].items, GroupsOf(i), vendorProducts,
                         NoFault, <<trig.n, i>>, products))
    /\ resolver' = [resolver EXCEPT ![i].pc = "done"]
    /\ UNCHANGED <<vendorProducts, vendorApis, trig, response, runs, prev>>
    /\ UNCHANGED <<client, calls, productsCollection, legacy>>

NextResolve ==
    \/ FetchStep
    \/ \E i \in 1..Len(pipe) : ResolveFind(i)
    \/ \E i \in 1..Len(pipe) : ResolveInsert(i)
    \/ \E i \in 1..Len(pipe) : AfterLoop1(i)
    \/ CommitStep
    \/ Respond

SpecResolve == InitResolve /\ [][NextResolve]_vars

\* C21: when the generic passes of the vendors of one trigger have resolved
\* their groups, every manufacturer/model name of their feeds that matched
\* no catalog product when the trigger started is the name of exactly one
\* catalog product.
FeedNames ==
    UNION {{ProductName(GroupsOf(i)[g].product) : g \in 1..Len(GroupsOf(i))} :
              i \in {j \in Slots : pipe[j].adapter = "generic"}}

UnseenNames == {name \in FeedNames : ~FindOnePartial(InitialCatalog, name).found}

Named(name) == {k \in 1..Len(products) : ToLower(products[k].name) = ToLower(name)}

C21_OneProductPerName ==
    (\A i \in Slots : pipe[i].pc \in {"done", "failed"}) =>
        \A name \in UnseenNames : Cardinality(Named(name)) = 1

(***************************************************************************)
(* Per-SKU product sync (collection products)                              *)
(***************************************************************************)
\* number of requests to the per-SKU route
MaxLegacyRuns == 3

\* the value of a field an object does not have
Missing == "undefined"

ExternalId(doc) == IF "externalId" \in DOMAIN doc THEN doc.externalId ELSE Missing

LegacyItem(sku, status) == [sku |-> sku, status |-> status]

LegacyFeeds ==
    { <<>>,
      <<LegacyItem("k1", "Available")>>,
      <<LegacyItem("k2", "Available")>>,
      <<LegacyItem("k1", "Available"), LegacyItem("k1", "Available")>>,
      <<LegacyItem("k1", "Available"), LegacyItem("k2", "Available")>>,
      <<LegacyItem("k2", "Available"), LegacyItem("k1", "Available"),
        LegacyItem("k1", "Available")>>,
      <<LegacyItem("k1", "Sold")>> }

SkuIndex(stockMap, sku) ==
    IF \E k \in 1..Len(stockMap) : stockMap[k].sku = sku
    THEN CHOOSE k \in 1..Len(stockMap) : stockMap[k].sku = sku
    ELSE 0

CountSku(stockMap, item, at) ==
    IF at = 0
    THEN Append(stockMap, [sku |-> item.sku, status |-> item.status, stock |-> 1])
    ELSE [stockMap EXCEPT ![at].stock = @ + 1]

RECURSIVE AggregateFrom(_, _)
AggregateFrom(items, stockMap) ==
    IF items = <<>> THEN stockMap
    ELSE AggregateFrom(Tail(items),
             CountSku(stockMap, Head(items), SkuIndex(stockMap, Head(items).sku)))

\* one entry per SKU, the first item of the SKU with stock = its item count;
\* the route's second grouping by SKU finds each SKU once, so each entry's
\* totalStock is its stock
aggregateStock(items) == AggregateFrom(items, <<>>)

\* the normalized product: it has a sku, a vendor, a stock and an inStock
\* flag (and descriptive fields left out here) and no externalId
enrichWithLocalImages(item) ==
    [sku |-> item.sku,
     vendor |-> "wholecell",
     stock |-> IF item.status = "Sold" THEN 0 ELSE 1,
     inStock |-> item.status # "Sold"]

\* normalized.stock = mergedItem.totalStock
Normalized(mergedItem) ==
    [enrichWithLocalImages(mergedItem) EXCEPT !.stock = mergedItem.stock]

\* externalIdMap.get(id): the last loaded product with that externalId
ExternalIdMapGet(existingProducts, id) ==
    IF \E k \in 1..Len(existingProducts) : ExternalId(existingProducts[k]) = id
    THEN Doc(existingProducts[
             CHOOSE k \in 1..Len(existingProducts) :
                 /\ ExternalId(existingProducts[k]) = id
                 /\ \A j \in 1..Len(existingProducts) :
                       ExternalId(existingProducts[j]) = id => j <= k])
    ELSE NoDoc

LegacyUpsertOp(normalized) ==
    [op |-> "updateOne",
     filter |-> [externalId |-> ExternalId(normalized), vendor |-> normalized.vendor],
     set |-> normalized,
     upsert |-> TRUE]

LegacyInsertOp(normalized) ==
    [op |-> "insertOne", document |-> normalized]

LegacyZeroOp(existing) ==
    [op |-> "updateOne",
     filter |-> [externalId |-> ExternalId(existing)],
     set |-> [stock |-> 0, inStock |-> FALSE],
     upsert |-> FALSE]

\* one SKU of step 3: skipped, or an update when the map has its externalId,
\* or an insert
LegacyDiff(normalized, mergedItem, existingById, acc) ==
    IF enrichWithLocalImages(mergedItem).stock <= 0 /\ mergedItem.stock <= 0 THEN acc
    ELSE IF existingById.found
    THEN [acc EXCEPT
             !.seenExternalIds = @ \cup {ExternalId(normalized)},
             !.updatedProducts = @ + 1,
             !.bulkOps = Append(@, LegacyUpsertOp(normalized))]
    ELSE [acc EXCEPT
             !.seenExternalIds = @ \cup {ExternalId(normalized)},
             !.newProducts = @ + 1,
             !.bulkOps = Append(@, LegacyInsertOp(normalized))]

RECURSIVE LegacyStep3(_, _, _)
LegacyStep3(vendorList, existingProducts, acc) ==
    IF vendorList = <<>> THEN acc
    ELSE LegacyStep3(Tail(vendorList), existingProducts,
             LegacyDiff(Normalized(Head(vendorList)), Head(vendorList),
                 ExternalIdMapGet(existingProducts,
                                  ExternalId(Normalized(Head(vendorList)))),
                 acc))

\* step 4: loaded products whose externalId no processed SKU added to the set
RECURSIVE LegacyStep4(_, _)
LegacyStep4(existingProducts, acc) ==
    IF existingProducts = <<>> THEN acc
    ELSE LegacyStep4(Tail(existingProducts),
             IF ExternalId(Head(existingProducts)) \in acc.seenExternalIds THEN acc
             ELSE [acc EXCEPT
                      !.markedAsOutOfStock = @ + 1,
                      !.bulkOps = Append(@, LegacyZeroOp(Head(existingProducts)))])

LegacyPlanOf(vendorList, existingProducts) ==
    LegacyStep4(existingProducts,
        LegacyStep3(vendorList, existingProducts,
            [bulkOps |-> <<>>, newProducts |-> 0, updatedProducts |-> 0,
             markedAsOutOfStock |-> 0, seenExternalIds |-> {}]))

LegacySummary(vendorList, plan) ==
    [totalFetched |-> Len(vendorList),
     newProducts |-> plan.newProducts,
     updatedProducts |-> plan.updatedProducts,
     markedAsOutOfStock |-> plan.markedAsOutOfStock,
     totalOperations |-> Len(plan.bulkOps)]

\* the document an insert stores
WithId(normalized, id) ==
    [_id |-> id, sku |-> normalized.sku, vendor |-> normalized.vendor,
     stock |-> normalized.stock, inStock |-> normalized.inStock]

\* a filter value of undefined reaches the server as null, which a document
\* without the field matches
LegacyMatches(doc, filter) ==
    /\ ExternalId(doc) = filter.externalId
    /\ "vendor" \in DOMAIN filter => doc.vendor = filter.vendor

FirstMatch(coll, filter) ==
    IF \E k \in 1..Len(coll) : LegacyMatches(coll[k], filter)
    THEN CHOOSE k \in 1..Len(coll) :
             /\ LegacyMatches(coll[k], filter)
             /\ \A j \in 1..Len(coll) : LegacyMatches(coll[j], filter) => k <= j
    ELSE 0

\* createIndex({ externalId: 1, vendor: 1 }, { unique: true }): an insert
\* whose key a document has is rejected with a duplicate key error
InsertChecked(state, doc) ==
    IF \E k \in 1..Len(state.coll) :
           /\ ExternalId(state.coll[k]) = ExternalId(doc)
           /\ state.coll[k].vendor = doc.vendor
    THEN [state EXCEPT !.failed = TRUE]
    ELSE [state EXCEPT !.coll = Append(@, doc)]

LegacyUpdateAt(state, k, op, id) ==
    IF k # 0 THEN [state EXCEPT !.coll[k] = SetFields(@, op.set)]
    ELSE IF op.upsert THEN InsertChecked(state, WithId(op.set, id))
    ELSE state

LegacyApplyOp(state, op, id) ==
    IF op.op = "insertOne" THEN InsertChecked(state, WithId(op.document, id))
    ELSE LegacyUpdateAt(state, FirstMatch(state.coll, op.filter), op, id)

\* bulkWrite(bulkOps, { ordered: false }): every operation is tried, in an
\* order the server chooses
RECURSIVE LegacyApplyOps(_, _, _, _)
LegacyApplyOps(state, bulkOps, order, n) ==
    IF order = <<>> THEN state
    ELSE LegacyApplyOps(
             LegacyApplyOp(state, bulkOps[Head(order)], Oid("p", n, 0, Head(order), 0)),
             bulkOps, Tail(order), n)

\* a request arrives and axios.get resolves with the feed
LegacyFetch(feed) ==
    /\ legacy.pc \in {"idle", "responded"}
    /\ legacy.n < MaxLegacyRuns
    /\ legacy' = [LegacyIdle EXCEPT !.pc = "plan", !.n = legacy.n + 1, !.items = feed]
    /\ UNCHANGED <<syncVars, resolver, client, calls, productsCollection>>

\* a request arrives and axios.get rejects: the route's catch answers 500
LegacyFetchFails ==
    /\ legacy.pc \in {"idle", "responded"}
    /\ legacy.n < MaxLegacyRuns
    /\ legacy' = [LegacyIdle EXCEPT !.pc = "responded", !.n = legacy.n + 1,
                                    !.status = 500]
    /\ UNCHANGED <<syncVars, resolver, client, calls, productsCollection>>

LegacyPlanned(vendorList, plan) ==
    legacy' = [legacy EXCEPT
        !.pre = productsCollection,
        !.bulkOps = plan.bulkOps,
        !.summary = LegacySummary(vendorList, plan),
        !.pc = IF plan.bulkOps = <<>> THEN "responded" ELSE "commit",
        !.status = IF plan.bulkOps = <<>> THEN 200 ELSE 0]

\* steps 2 to 4: the products are loaded and the batch is built; with an
\* empty batch the route answers at once
LegacyPlan ==
    /\ legacy.pc = "plan"
    /\ LegacyPlanned(aggregateStock(legacy.items),
           LegacyPlanOf(aggregateStock(legacy.items), productsCollection))
    /\ UNCHANGED <<syncVars, resolver, client, calls, productsCollection>>

LegacyCommitted(result) ==
    /\ productsCollection' = result.coll
    /\ legacy' = [legacy EXCEPT !.pc = "responded",
                                !.status = IF result.failed THEN 500 ELSE 200]

\* step 5 and the answer: 200 with the summary when every operation applied,
\* 500 from the catch when the bulkWrite rejected
LegacyCommit(order) ==
    /\ legacy.pc = "commit"
    /\ order \in WholeOrders(legacy.bulkOps)
    /\ LegacyCommitted(
           LegacyApplyOps([coll |-> productsCollection, failed |-> FALSE],
                          legacy.bulkOps, order, legacy.n))
    /\ UNCHANGED <<syncVars, resolver, client, calls>>

\* a product persisted with the externalId the route's index and lookups
\* are keyed on
KeyedProduct ==
    [_id |-> Oid("p", 0, 0, 1, 0), externalId |-> "x1", sku |-> "k1",
     vendor |-> "wholecell", stock |-> 2, inStock |-> TRUE]

InitLegacy ==
    /\ SyncAtRest
    /\ resolver = <<>>
    /\ client = NoClient
    /\ calls = <<>>
    /\ productsCollection \in {<<>>, <<KeyedProduct>>}
    /\ legacy = LegacyIdle

NextLegacy ==
    \/ \E feed \in LegacyFeeds : LegacyFetch(feed)
    \/ LegacyFetchFails
    \/ LegacyPlan
    \/ \E order \in WholeOrders(legacy.bulkOps) : LegacyCommit(order)

SpecLegacy == InitLegacy /\ [][NextLegacy]_vars

\* C27: when a pass of the per-SKU sync has answered 200, every product that
\* was persisted when the pass loaded the collection and whose SKU the feed
\* holds with positive stock is still that SKU's product, under its id, with
\* the stock of the feed; no other document has its SKU; and it is not marked
\* out of stock.
FeedStock(sku) ==
    LET vendorList == aggregateStock(legacy.items)
    IN  IF SkuIndex(vendorList, sku) = 0 THEN 0
        ELSE vendorList[SkuIndex(vendorList, sku)].stock

WithSku(coll, sku) == {j \in 1..Len(coll) : coll[j].sku = sku}

C27_UpdatedInPlace ==
    (legacy.pc = "responded" /\ legacy.status = 200) =>
        \A k \in 1..Len(legacy.pre) :
            FeedStock(legacy.pre[k].sku) > 0 =>
                /\ Cardinality(WithSku(productsCollection, legacy.pre[k].sku)) = 1
                /\ \E j \in 1..Len(productsCollection) :
                      /\ productsCollection[j]._id = legacy.pre[k]._id
                      /\ productsCollection[j].sku = legacy.pre[k].sku
                      /\ productsCollection[j].stock = FeedStock(legacy.pre[k].sku)
                      /\ ~(productsCollection[j].stock = 0
                             /\ ~productsCollection[j].inStock)

============================================================================
